---- MODULE Spec2Model ----
(***************************************************************************)
(* Model of the sprite batch / GPU streaming pipeline of gwbase            *)
(* (src/src/glsprite.cpp, src/include/glsprite.hpp, src/src/display.cpp).  *)
(*                                                                         *)
(* Arrays are modelled as functions over 0..n-1, exactly as the C arrays   *)
(* they stand for.  The two GPU buffer objects of a sprite_effect_t are    *)
(* the variables vbuf (one entry per vertex slot) and ibuf (one entry per  *)
(* index slot).  A slot of a freshly allocated data store holds no defined *)
(* value; it is modelled by the distinguished values UndefVertex / -1,     *)
(* which are different from everything the generators write.               *)
(*                                                                         *)
(* log is a history variable: the sequence of externally visible events    *)
(* (callback invocations, buffer_data calls, glDrawElements calls) of the  *)
(* last operation.  vmaps and imaps are history variables: for every slot  *)
(* of the two data stores, the number of glMapBufferRange requests for     *)
(* writing that covered the slot since the store was last allocated.       *)
(***************************************************************************)
EXTENDS Integers, Sequences, FiniteSets, TLC

VARIABLES SpriteData, queuedBlend, batch, effect, vbuf, ibuf, vmaps, imaps, glBlend, log

vars == <<SpriteData, queuedBlend, batch, effect, vbuf, ibuf, vmaps, imaps, glBlend, log>>

(***************************************************************************)
(* Bounds of the model.                                                    *)
(***************************************************************************)
MaxQuads == 3
MaxCount == 3
MaxFailCall == 1
MaxCapacity == 6
MaxRun == 6
MaxInitial == 2
MaxSprites == 2
MaxEnsure == 3
MaxSource == 2
MaxSort == 3
MaxIndexed == 2

(***************************************************************************)
(* Program constants.                                                      *)
(***************************************************************************)
\* A uint32_t render state is the pair of its 16-bit halves <<high, low>>
\* (the value 65536 * high + low): equality of pairs is equality of values.
U32(hi, lo) == <<hi, lo>>

\* 0xFFFFFFFFU, the value CurrentState is reset to.
NoState == U32(65535, 65535)

\* The render states sprites carry in the model, in ascending order.
StateList == <<U32(0, 7), U32(0, 9), NoState>>

RenderStates == {StateList[k] : k \in DOMAIN StateList}
IndexSizes == {2, 4}

Min(a, b) == IF a < b THEN a ELSE b

UndefVertex == [tok |-> -1, corner |-> -1]

\* glBufferData(target, size, NULL, usage): a data store of n undefined slots.
FreshStore(n, undef) == [s \in 0 .. n - 1 |-> undef]

Arrangements(n) == {f \in [0 .. n - 1 -> 0 .. n - 1] : \A i, j \in 0 .. n - 1 : f[i] = f[j] => i = j}

(***************************************************************************)
(* Blend presets: the seven blend fields set by sprite_effect_blend_*.     *)
(***************************************************************************)
blend_none == [BlendEnabled |-> FALSE, BlendSourceColor |-> "ONE", BlendSourceAlpha |-> "ONE", BlendTargetColor |-> "ZERO", BlendTargetAlpha |-> "ZERO", BlendFuncColor |-> "FUNC_ADD", BlendFuncAlpha |-> "FUNC_ADD"]

blend_alpha == [BlendEnabled |-> TRUE, BlendSourceColor |-> "SRC_COLOR", BlendSourceAlpha |-> "SRC_ALPHA", BlendTargetColor |-> "ONE_MINUS_SRC_ALPHA", BlendTargetAlpha |-> "ONE_MINUS_SRC_ALPHA", BlendFuncColor |-> "FUNC_ADD", BlendFuncAlpha |-> "FUNC_ADD"]

blend_additive == [BlendEnabled |-> TRUE, BlendSourceColor |-> "SRC_COLOR", BlendSourceAlpha |-> "SRC_ALPHA", BlendTargetColor |-> "ONE", BlendTargetAlpha |-> "ONE", BlendFuncColor |-> "FUNC_ADD", BlendFuncAlpha |-> "FUNC_ADD"]

blend_premultiplied == [BlendEnabled |-> TRUE, BlendSourceColor |-> "ONE", BlendSourceAlpha |-> "ONE", BlendTargetColor |-> "ONE_MINUS_SRC_ALPHA", BlendTargetAlpha |-> "ONE_MINUS_SRC_ALPHA", BlendFuncColor |-> "FUNC_ADD", BlendFuncAlpha |-> "FUNC_ADD"]

(***************************************************************************)
(* sprite_batch_t                                                          *)
(***************************************************************************)
UninitState == [LayerDepth |-> -1, RenderState |-> U32(-1, -1)]

create_sprite_batch(capacity) ==
    [Count |-> 0, Capacity |-> capacity,
     Quads |-> [i \in 0 .. capacity - 1 |-> -1],
     State |-> [i \in 0 .. capacity - 1 |-> UninitState],
     Order |-> [i \in 0 .. capacity - 1 |-> -1]]

\* Mutant: the arrays are resized to the requested capacity without the
\* test of the current capacity.
ensure_sprite_batch_always(b, capacity) ==
    [b EXCEPT !.Capacity = capacity,
              !.Quads = [i \in 0 .. capacity - 1 |-> IF i < b.Capacity THEN b.Quads[i] ELSE -1],
              !.State = [i \in 0 .. capacity - 1 |-> IF i < b.Capacity THEN b.State[i] ELSE UninitState],
              !.Order = [i \in 0 .. capacity - 1 |-> IF i < b.Capacity THEN b.Order[i] ELSE -1]]

\* Mutant: a growing batch at least doubles its capacity.
ensure_sprite_batch_doubling(b, capacity) ==
    IF b.Capacity < capacity
    THEN ensure_sprite_batch_always(b, IF capacity < 2 * b.Capacity THEN 2 * b.Capacity ELSE capacity)
    ELSE b

ensure_sprite_batch(b, capacity) ==
    IF b.Capacity < capacity
    THEN [b EXCEPT !.Capacity = capacity,
                   !.Quads = [i \in 0 .. capacity - 1 |-> IF i < b.Capacity THEN b.Quads[i] ELSE -1],
                   !.State = [i \in 0 .. capacity - 1 |-> IF i < b.Capacity THEN b.State[i] ELSE UninitState],
                   !.Order = [i \in 0 .. capacity - 1 |-> IF i < b.Capacity THEN b.Order[i] ELSE -1]]
    ELSE b

\* Mutant: the flush releases the storage, as delete_sprite_batch does.
flush_sprite_batch_release(b) ==
    [Count |-> 0, Capacity |-> 0, Quads |-> << >>, State |-> << >>, Order |-> << >>]

flush_sprite_batch(b) == [b EXCEPT !.Count = 0]

\* Mutant: the order slot receives the loop counter i, not qindex.
generate_quads_loop_counter(b, quad_offset, sprites, sprite_offset, sprite_count) ==
    LET written(q) == q >= quad_offset /\ q < quad_offset + sprite_count
        src(q) == sprites[sprite_offset + (q - quad_offset) + 1]
    IN [b EXCEPT !.Quads = [q \in DOMAIN b.Quads |-> IF written(q) THEN src(q).Geom ELSE b.Quads[q]],
                 !.State = [q \in DOMAIN b.State |-> IF written(q) THEN [LayerDepth |-> src(q).LayerDepth, RenderState |-> src(q).RenderState] ELSE b.State[q]],
                 !.Order = [q \in DOMAIN b.Order |-> IF written(q) THEN q - quad_offset ELSE b.Order[q]]]

\* sprites is a 1-based sequence (std::vector / C array read from index 0);
\* sprite number sprite_offset + i of the code is sprites[sprite_offset + i + 1].
generate_quads(b, quad_offset, sprites, sprite_offset, sprite_count) ==
    LET written(q) == q >= quad_offset /\ q < quad_offset + sprite_count
        src(q) == sprites[sprite_offset + (q - quad_offset) + 1]
    IN [b EXCEPT !.Quads = [q \in DOMAIN b.Quads |-> IF written(q) THEN src(q).Geom ELSE b.Quads[q]],
                 !.State = [q \in DOMAIN b.State |-> IF written(q) THEN [LayerDepth |-> src(q).LayerDepth, RenderState |-> src(q).RenderState] ELSE b.State[q]],
                 !.Order = [q \in DOMAIN b.Order |-> IF written(q) THEN q ELSE b.Order[q]]]

(***************************************************************************)
(* sprite_effect_t                                                         *)
(***************************************************************************)
create_sprite_effect(quad_count, index_size) ==
    [VertexCapacity |-> quad_count * 4, VertexOffset |-> 0,
     IndexCapacity |-> quad_count * 6, IndexOffset |-> 0,
     IndexSize |-> index_size, CurrentState |-> NoState,
     Blend |-> blend_none]

(***************************************************************************)
(* Vertex and index generation into a mapped range.  map_base is the slot  *)
(* the mapped pointer refers to (glMapBufferRange offset / element size);  *)
(* the generators address the mapping from 0.                              *)
(***************************************************************************)
\* Mutant: the quads are read in storage order, not through the order array.
generate_quad_vertices_ptc_unordered(vb, map_base, buffer_offset, quads, indices, quad_offset, quad_count) ==
    LET first == map_base + buffer_offset
    IN [s \in DOMAIN vb |->
          IF s >= first /\ s < first + 4 * quad_count
          THEN [tok |-> quads[quad_offset + (s - first) \div 4], corner |-> (s - first) % 4]
          ELSE vb[s]]

generate_quad_vertices_ptc(vb, map_base, buffer_offset, quads, indices, quad_offset, quad_count) ==
    LET first == map_base + buffer_offset
        quad_of(s) == (s - first) \div 4
        id(s) == indices[quad_offset + quad_of(s)]
    IN [s \in DOMAIN vb |->
          IF s >= first /\ s < first + 4 * quad_count
          THEN [tok |-> quads[id(s)], corner |-> (s - first) % 4]
          ELSE vb[s]]

\* The six corner offsets of the two triangles of a quad.
QuadCorner(k) == CASE k = 0 -> 1 [] k = 1 -> 0 [] k = 2 -> 2 [] k = 3 -> 2 [] k = 4 -> 0 [] OTHER -> 3

\* Mutant: the base vertex advances by 6, the index stride, per quad.
generate_quad_indices_u16_stride6(ib, map_base, offset, base_vertex, quad_count) ==
    LET first == map_base + offset
        b16(i) == (base_vertex + 6 * i) % 65536
    IN [s \in DOMAIN ib |->
          IF s >= first /\ s < first + 6 * quad_count
          THEN (b16((s - first) \div 6) + QuadCorner((s - first) % 6)) % 65536
          ELSE ib[s]]

\* Mutant: the indices are kept in int16_t, 15 bits wide.
generate_quad_indices_u16_signed(ib, map_base, offset, base_vertex, quad_count) ==
    LET first == map_base + offset
        b16(i) == (base_vertex + 4 * i) % 32768
    IN [s \in DOMAIN ib |->
          IF s >= first /\ s < first + 6 * quad_count
          THEN (b16((s - first) \div 6) + QuadCorner((s - first) % 6)) % 32768
          ELSE ib[s]]

generate_quad_indices_u16(ib, map_base, offset, base_vertex, quad_count) ==
    LET first == map_base + offset
        b16(i) == (base_vertex + 4 * i) % 65536
    IN [s \in DOMAIN ib |->
          IF s >= first /\ s < first + 6 * quad_count
          THEN (b16((s - first) \div 6) + QuadCorner((s - first) % 6)) % 65536
          ELSE ib[s]]

\* uint32_t arithmetic: every value the model reaches is below 2^31, so the
\* reduction modulo 2^32 is the identity and is not written.
generate_quad_indices_u32(ib, map_base, offset, base_vertex, quad_count) ==
    LET first == map_base + offset
        b32(i) == base_vertex + 4 * i
    IN [s \in DOMAIN ib |->
          IF s >= first /\ s < first + 6 * quad_count
          THEN b32((s - first) \div 6) + QuadCorner((s - first) % 6)
          ELSE ib[s]]

(***************************************************************************)
(* sprite_effect_buffer_data_ptc, in the steps of its code.                *)
(***************************************************************************)
\* Mutant: the buffers are discarded as soon as a single quad of space is left.
buffer_full_early(fx) == fx.VertexOffset + 4 >= fx.VertexCapacity

\* line 377: the full-buffer test that triggers the orphan reset.
buffer_full(fx) == fx.VertexOffset = fx.VertexCapacity

\* Mutant: the index cursor is not reset.
orphan_cursors_vertex_only(fx) == [fx EXCEPT !.VertexOffset = 0]

\* lines 383-384: both cursors back to 0.
orphan_cursors(fx) == [fx EXCEPT !.VertexOffset = 0, !.IndexOffset = 0]

\* Mutant: the request is not clamped to the remaining space.
fit_vertices_unclamped(fx, quad_count) == quad_count * 4

\* lines 389-403: the number of vertices of the request that fit.
fit_vertices(fx, quad_count) ==
    IF fx.VertexCapacity < fx.VertexOffset + quad_count * 4
    THEN fx.VertexCapacity - fx.VertexOffset
    ELSE quad_count * 4

\* lines 389-403: the number of indices of the request that fit.
fit_indices(fx, quad_count) ==
    IF fx.VertexCapacity < fx.VertexOffset + quad_count * 4
    THEN fx.IndexCapacity - fx.IndexOffset
    ELSE quad_count * 6

\* Mutant: the cursors stop one quad short of what was written.
advance_cursors_short(fx, buffer_count) ==
    [fx EXCEPT !.VertexOffset = @ + (buffer_count - 1) * 4, !.IndexOffset = @ + (buffer_count - 1) * 6]

\* lines 429-430: the cursors after buffer_count quads were buffered.
advance_cursors(fx, buffer_count) ==
    [fx EXCEPT !.VertexOffset = @ + buffer_count * 4, !.IndexOffset = @ + buffer_count * 6]

\* glMapBufferRange(target, first * size, count * size, write): the request
\* counts of the slots after a request for the slots first .. first+count-1.
glMapBufferRange(maps, first, count) ==
    [s \in DOMAIN maps |-> IF s >= first /\ s < first + count THEN maps[s] + 1 ELSE maps[s]]

\* Mutant: a failed vertex mapping abandons the index write as well.
sprite_effect_buffer_data_ptc_abandon(fx, g, quads, indices, quad_offset, quad_count, base_index_in, vok, iok) ==
    LET orphan == buffer_full(fx)
        fx1 == IF orphan THEN orphan_cursors(fx) ELSE fx
        g1 == IF orphan
              THEN [vbuf |-> FreshStore(fx.VertexCapacity, UndefVertex), ibuf |-> FreshStore(fx.IndexCapacity, -1),
                    vmaps |-> FreshStore(fx.VertexCapacity, 0), imaps |-> FreshStore(fx.IndexCapacity, 0)]
              ELSE g
        num_vertices == fit_vertices(fx1, quad_count)
        num_indices == fit_indices(fx1, quad_count)
        base_vertex == fx1.VertexOffset
        base_index == fx1.IndexOffset
        buffer_count == num_vertices \div 4
        vb2 == IF vok THEN generate_quad_vertices_ptc(g1.vbuf, base_vertex, 0, quads, indices, quad_offset, buffer_count) ELSE g1.vbuf
        ib2 == IF iok /\ vok
               THEN IF fx1.IndexSize = 2
                    THEN generate_quad_indices_u16(g1.ibuf, base_index, 0, base_vertex, buffer_count)
                    ELSE generate_quad_indices_u32(g1.ibuf, base_index, 0, base_vertex, buffer_count)
               ELSE g1.ibuf
        g2 == [vbuf |-> vb2, ibuf |-> ib2,
               vmaps |-> glMapBufferRange(g1.vmaps, base_vertex, num_vertices),
               imaps |-> glMapBufferRange(g1.imaps, base_index, num_indices)]
        ev(n, fx2, bi) == [op |-> "BufferData", entry |-> fx.VertexOffset, ientry |-> fx.IndexOffset, orphan |-> orphan,
                           quad_offset |-> quad_offset, quad_count |-> quad_count, n |-> n,
                           v0 |-> base_vertex, i0 |-> base_index, vn |-> num_vertices, in |-> num_indices,
                           base_index |-> bi, vok |-> vok, iok |-> iok,
                           vcur |-> fx2.VertexOffset, icur |-> fx2.IndexOffset,
                           vcap |-> fx.VertexCapacity, icap |-> fx.IndexCapacity]
    IN IF buffer_count = 0
       THEN [effect |-> fx1, gpu |-> g1, n |-> 0,
             base_index |-> base_index_in, event |-> ev(0, fx1, base_index_in)]
       ELSE [effect |-> advance_cursors(fx1, buffer_count), gpu |-> g2, n |-> buffer_count,
             base_index |-> base_index,
             event |-> ev(buffer_count, advance_cursors(fx1, buffer_count), base_index)]

\* The whole call.  g is the GPU side: [vbuf, ibuf, vmaps, imaps].  vok / iok:
\* whether glMapBufferRange returned a mapping for the vertex / index range.
\* base_index_in is the caller's variable that base_index_arg points to;
\* base_index is its value after the call.
sprite_effect_buffer_data_ptc(fx, g, quads, indices, quad_offset, quad_count, base_index_in, vok, iok) ==
    LET orphan == buffer_full(fx)
        fx1 == IF orphan THEN orphan_cursors(fx) ELSE fx
        g1 == IF orphan
              THEN [vbuf |-> FreshStore(fx.VertexCapacity, UndefVertex), ibuf |-> FreshStore(fx.IndexCapacity, -1),
                    vmaps |-> FreshStore(fx.VertexCapacity, 0), imaps |-> FreshStore(fx.IndexCapacity, 0)]
              ELSE g
        num_vertices == fit_vertices(fx1, quad_count)
        num_indices == fit_indices(fx1, quad_count)
        base_vertex == fx1.VertexOffset
        base_index == fx1.IndexOffset
        buffer_count == num_vertices \div 4
        vb2 == IF vok THEN generate_quad_vertices_ptc(g1.vbuf, base_vertex, 0, quads, indices, quad_offset, buffer_count) ELSE g1.vbuf
        ib2 == IF iok
               THEN IF fx1.IndexSize = 2
                    THEN generate_quad_indices_u16(g1.ibuf, base_index, 0, base_vertex, buffer_count)
                    ELSE generate_quad_indices_u32(g1.ibuf, base_index, 0, base_vertex, buffer_count)
               ELSE g1.ibuf
        g2 == [vbuf |-> vb2, ibuf |-> ib2,
               vmaps |-> glMapBufferRange(g1.vmaps, base_vertex, num_vertices),
               imaps |-> glMapBufferRange(g1.imaps, base_index, num_indices)]
        ev(n, fx2, bi) == [op |-> "BufferData", entry |-> fx.VertexOffset, ientry |-> fx.IndexOffset, orphan |-> orphan,
                           quad_offset |-> quad_offset, quad_count |-> quad_count, n |-> n,
                           v0 |-> base_vertex, i0 |-> base_index, vn |-> num_vertices, in |-> num_indices,
                           base_index |-> bi, vok |-> vok, iok |-> iok,
                           vcur |-> fx2.VertexOffset, icur |-> fx2.IndexOffset,
                           vcap |-> fx.VertexCapacity, icap |-> fx.IndexCapacity]
    IN IF buffer_count = 0
       THEN [effect |-> fx1, gpu |-> g1, n |-> 0,
             base_index |-> base_index_in, event |-> ev(0, fx1, base_index_in)]
       ELSE [effect |-> advance_cursors(fx1, buffer_count), gpu |-> g2, n |-> buffer_count,
             base_index |-> base_index,
             event |-> ev(buffer_count, advance_cursors(fx1, buffer_count), base_index)]

(***************************************************************************)
(* sprite_effect_draw_batch_region_ptc                                     *)
(***************************************************************************)
\* The vertices of the two triangles of a quad carrying the token t, in the
\* order of the six indices generate_quad_indices_* writes for it.
QuadTriangles(t) == [k \in 0 .. 5 |-> [tok |-> t, corner |-> QuadCorner(k)]]

\* What the GPU assembles from the six index slots from s on: the vertex
\* each stored index refers to.
GpuTriangles(vb, ib, s) ==
    [k \in 0 .. 5 |->
        IF s + k \in DOMAIN ib
        THEN IF ib[s + k] \in DOMAIN vb THEN vb[ib[s + k]] ELSE UndefVertex
        ELSE UndefVertex]

\* The quad the GPU draws from the six index slots from s on: the token t
\* when the slots assemble to the two triangles of the quad carrying t, and
\* -1 (no quad of the batch) otherwise.
GpuQuad(vb, ib, s) ==
    LET tri == GpuTriangles(vb, ib, s)
    IN IF tri[0].tok >= 0 /\ tri = QuadTriangles(tri[0].tok) THEN tri[0].tok ELSE -1

\* One glDrawElements(GL_TRIANGLES, nindex, type, base_index * size) call.
\* first is the order position of the first quad of the sub-batch
\* (quad_offset + index of the code); read lists the index values the call
\* reads from the index buffer and gpu the quads the GPU draws.
glDrawElements(vb, ib, base_index, nindex, first) ==
    [op |-> "Draw", base |-> base_index, nindex |-> nindex, first |-> first,
     read |-> [k \in 1 .. nindex |-> IF base_index + k - 1 \in DOMAIN ib THEN ib[base_index + k - 1] ELSE -1],
     gpu |-> [j \in 1 .. nindex \div 6 |-> GpuQuad(vb, ib, base_index + 6 * (j - 1))]]

ApplyState(state) == [op |-> "ApplyState", state |-> state]

\* line 482
state_changed(state_0, state_1) == state_1 # state_0

\* line 486
run_nonempty(i, index) == i > index

RECURSIVE region_loop(_, _, _, _, _, _, _)
region_loop(b, vb, ib, quad_offset, quad_count, i, acc) ==
    IF i >= quad_count
    THEN acc
    ELSE LET quad_id == b.Order[quad_offset + i]
             state_1 == b.State[quad_id].RenderState
         IN IF state_changed(acc.state_0, state_1)
            THEN LET drew == run_nonempty(i, acc.index)
                     nindex == (i - acc.index) * 6
                     ev1 == IF drew
                            THEN Append(acc.events, glDrawElements(vb, ib, acc.base_index, nindex, quad_offset + acc.index))
                            ELSE acc.events
                     base1 == IF drew THEN acc.base_index + nindex ELSE acc.base_index
                 IN region_loop(b, vb, ib, quad_offset, quad_count, i + 1,
                        [state_0 |-> state_1, state_1 |-> state_1, index |-> i,
                         base_index |-> base1, events |-> Append(ev1, ApplyState(state_1))])
            ELSE region_loop(b, vb, ib, quad_offset, quad_count, i + 1, [acc EXCEPT !.state_1 = state_1])

\* Mutant: the remainder of the sub-batch is not submitted.
sprite_effect_draw_batch_region_ptc_no_remainder(fx, b, vb, ib, quad_offset, quad_count, base_index) ==
    LET call == [op |-> "DrawRegion", quad_offset |-> quad_offset, quad_count |-> quad_count, base_index |-> base_index]
        acc == region_loop(b, vb, ib, quad_offset, quad_count, 0,
                   [state_0 |-> fx.CurrentState, state_1 |-> fx.CurrentState, index |-> 0,
                    base_index |-> base_index, events |-> <<call>>])
    IN [effect |-> [fx EXCEPT !.CurrentState = acc.state_1], events |-> acc.events]

\* Mutant: the render state of the last quad is not stored in the effect.
sprite_effect_draw_batch_region_ptc_forgets(fx, b, vb, ib, quad_offset, quad_count, base_index) ==
    LET call == [op |-> "DrawRegion", quad_offset |-> quad_offset, quad_count |-> quad_count, base_index |-> base_index]
        acc == region_loop(b, vb, ib, quad_offset, quad_count, 0,
                   [state_0 |-> fx.CurrentState, state_1 |-> fx.CurrentState, index |-> 0,
                    base_index |-> base_index, events |-> <<call>>])
        nindex == (quad_count - acc.index) * 6
    IN [effect |-> fx,
        events |-> Append(acc.events, glDrawElements(vb, ib, acc.base_index, nindex, quad_offset + acc.index))]

sprite_effect_draw_batch_region_ptc(fx, b, vb, ib, quad_offset, quad_count, base_index) ==
    LET call == [op |-> "DrawRegion", quad_offset |-> quad_offset, quad_count |-> quad_count, base_index |-> base_index]
        acc == region_loop(b, vb, ib, quad_offset, quad_count, 0,
                   [state_0 |-> fx.CurrentState, state_1 |-> fx.CurrentState, index |-> 0,
                    base_index |-> base_index, events |-> <<call>>])
        nindex == (quad_count - acc.index) * 6
    IN [effect |-> [fx EXCEPT !.CurrentState = acc.state_1],
        events |-> Append(acc.events, glDrawElements(vb, ib, acc.base_index, nindex, quad_offset + acc.index))]

(***************************************************************************)
(* sprite_effect_draw_batch_ptc.  vfail / ifail: the ordinals of the       *)
(* buffer_data calls of this invocation whose vertex / index mapping       *)
(* fails.                                                                  *)
(***************************************************************************)
SetupEffect == [op |-> "SetupEffect"]

RECURSIVE batch_loop(_, _, _, _, _, _, _, _, _, _)
\* lines 452-455: the rest of the loop body after buffer_data returned r.
batch_chunk(r, d, b, quad_count, quad_index, call, vfail, ifail, events) ==
    batch_loop(d.effect, b, r.gpu, quad_count - r.n, quad_index + r.n, d.effect.IndexOffset,
               call + 1, vfail, ifail, events \o <<r.event>> \o d.events)

batch_region(r, b, quad_count, quad_index, call, vfail, ifail, events) ==
    batch_chunk(r, sprite_effect_draw_batch_region_ptc(r.effect, b, r.gpu.vbuf, r.gpu.ibuf, quad_index, r.n, r.base_index),
                b, quad_count, quad_index, call, vfail, ifail, events)

batch_loop(fx, b, g, quad_count, quad_index, base_index, call, vfail, ifail, events) ==
    IF ~(quad_count > 0)
    THEN [effect |-> fx, gpu |-> g, events |-> events]
    ELSE batch_region(sprite_effect_buffer_data_ptc(fx, g, b.Quads, b.Order, quad_index, quad_count,
                                                    base_index, call \notin vfail, call \notin ifail),
                      b, quad_count, quad_index, call, vfail, ifail, events)

\* Mutant: an empty batch returns before the effect is set up.
sprite_effect_draw_batch_ptc_skip_empty(fx, b, g, vfail, ifail) ==
    IF b.Count = 0
    THEN [effect |-> fx, gpu |-> g, events |-> <<[op |-> "DrawBatch", vfail |-> vfail, ifail |-> ifail]>>]
    ELSE batch_loop([fx EXCEPT !.CurrentState = NoState], b, g, b.Count, 0, 0, 1, vfail, ifail,
                    <<[op |-> "DrawBatch", vfail |-> vfail, ifail |-> ifail], SetupEffect>>)

sprite_effect_draw_batch_ptc(fx, b, g, vfail, ifail) ==
    batch_loop([fx EXCEPT !.CurrentState = NoState], b, g, b.Count, 0, 0, 1, vfail, ifail,
               <<[op |-> "DrawBatch", vfail |-> vfail, ifail |-> ifail], SetupEffect>>)

(***************************************************************************)
(* The low-level API driven directly: an effect of capacity K quads and a  *)
(* batch whose Order array is in any arrangement.                          *)
(***************************************************************************)
Sprite(g, z, rs) == [Geom |-> g, LayerDepth |-> z, RenderState |-> rs]

\* A batch of n sprites, sprite i carrying render state rs[i], filled by
\* generate_quads and then ordered by ord.
FilledBatch(n, rs, ord) ==
    LET sprites == [i \in 1 .. n |-> Sprite(i - 1, 0, rs[i - 1])]
        b == generate_quads(create_sprite_batch(n), 0, sprites, 0, n)
    IN [b EXCEPT !.Count = n, !.Order = ord]

Gpu == [vbuf |-> vbuf, ibuf |-> ibuf, vmaps |-> vmaps, imaps |-> imaps]

\* The state after create_sprite_effect(K, ., isz) and the batch b.
Created(K, isz, b) ==
    /\ SpriteData = << >>
    /\ queuedBlend = << >>
    /\ batch = b
    /\ effect = create_sprite_effect(K, isz)
    /\ vbuf = FreshStore(4 * K, UndefVertex)
    /\ ibuf = FreshStore(6 * K, -1)
    /\ vmaps = FreshStore(4 * K, 0)
    /\ imaps = FreshStore(6 * K, 0)
    /\ glBlend = blend_none
    /\ log = << >>

SetGpu(r) ==
    /\ effect' = r.effect
    /\ vbuf' = r.gpu.vbuf
    /\ ibuf' = r.gpu.ibuf
    /\ vmaps' = r.gpu.vmaps
    /\ imaps' = r.gpu.imaps

\* The assignments of render states to n sprites that were added grouped by
\* render state.  Every sequence of render states along the order positions
\* is the sequence of such a batch under one of the arrangements of Order.
GroupedStates(n) ==
    {[i \in 0 .. n - 1 |-> StateList[k[i]]] :
        k \in {f \in [0 .. n - 1 -> DOMAIN StateList] : \A i, j \in 0 .. n - 1 : i <= j => f[i] <= f[j]}}

Init ==
    \E n \in 0 .. MaxCount : \E rs \in GroupedStates(n) : \E ord \in Arrangements(n) :
        \E K \in 1 .. MaxQuads : Created(K, 2, FilledBatch(n, rs, ord))

\* The mapping failures of one draw_batch: none, or those of one
\* buffer_data call (its vertex mapping, its index mapping or both).
FailurePlans ==
    {[vfail |-> {}, ifail |-> {}]} \cup
    UNION {{[vfail |-> {c}, ifail |-> {}], [vfail |-> {}, ifail |-> {c}], [vfail |-> {c}, ifail |-> {c}]} : c \in 1 .. MaxFailCall}

NoFailure == [vfail |-> {}, ifail |-> {}]

DrawBatchWith(plans) ==
    \E f \in plans :
        \E r \in {sprite_effect_draw_batch_ptc(effect, batch, Gpu, f.vfail, f.ifail)} :
           /\ SetGpu(r)
           /\ log' = r.events
           /\ UNCHANGED <<SpriteData, queuedBlend, batch, glBlend>>

DrawBatch == DrawBatchWith(FailurePlans)

\* A direct call of sprite_effect_buffer_data_ptc on the batch's arrays.
BufferDataCall(offs, cnts, oks) ==
    \E off \in offs : \E cnt \in cnts : \E vok \in oks : \E iok \in oks :
        /\ off + cnt <= batch.Count
        /\ \E r \in {sprite_effect_buffer_data_ptc(effect, Gpu, batch.Quads, batch.Order, off, cnt, 0, vok, iok)} :
              /\ SetGpu(r)
              /\ log' = <<r.event>>
              /\ UNCHANGED <<SpriteData, queuedBlend, batch, glBlend>>

BufferOne == BufferDataCall({0}, {1}, {TRUE})

Next == DrawBatch \/ BufferOne

Spec == Init /\ [][Next]_vars

(***************************************************************************)
(* The streaming effect alone: an effect of capacity K quads, and direct   *)
(* calls of sprite_effect_buffer_data_ptc for any count on a batch of      *)
(* K + 5 identical sprites.                                                *)
(***************************************************************************)
UniformBatch(n) ==
    LET sprites == [i \in 1 .. n |-> Sprite(0, 0, StateList[1])]
        b == generate_quads(create_sprite_batch(n), 0, sprites, 0, n)
    IN [b EXCEPT !.Count = n]

Capacity == effect.VertexCapacity \div 4

InitBuf ==
    \E K \in 1 .. MaxCapacity : \E isz \in IndexSizes : Created(K, isz, UniformBatch(K + 5))

BufferAny == BufferDataCall({0, Capacity}, 0 .. batch.Count, {TRUE})

DrawAll == DrawBatchWith({NoFailure})

FlushBatch ==
    /\ batch' = flush_sprite_batch(batch)
    /\ log' = <<[op |-> "flush_sprite_batch", old |-> batch.Count]>>
    /\ UNCHANGED <<SpriteData, queuedBlend, effect, vbuf, ibuf, vmaps, imaps, glBlend>>

NextBuf == BufferAny \/ DrawAll \/ FlushBatch

SpecBuf == InitBuf /\ [][NextBuf]_vars

(***************************************************************************)
(* One draw_batch region at a time: batches in insertion order carrying    *)
(* any sequence of render states, drawn by an effect that holds the whole  *)
(* batch or half of it.                                                    *)
(***************************************************************************)
InitRuns ==
    \E n \in 0 .. MaxRun : \E rs \in [0 .. n - 1 -> RenderStates] :
        \E K \in {MaxRun \div 2, MaxRun} :
            Created(K, 2, FilledBatch(n, rs, [i \in 0 .. n - 1 |-> i]))

NextRuns == DrawAll \/ BufferOne

SpecRuns == InitRuns /\ [][NextRuns]_vars

(***************************************************************************)
(* class SpriteBatch (display.cpp).  sb is the object: its members         *)
(* SpriteData, BatchData (batch) and EffectData (effect), the GPU buffers  *)
(* of the effect, and the blend state of the GL context.  queuedBlend      *)
(* remembers, for every queued sprite, the blend fields of the effect when *)
(* the sprite was added.                                                   *)
(***************************************************************************)
sprite_effect_blend_none(fx) == [fx EXCEPT !.Blend = blend_none]

sprite_effect_blend_alpha(fx) == [fx EXCEPT !.Blend = blend_alpha]

sprite_effect_blend_additive(fx) == [fx EXCEPT !.Blend = blend_additive]

sprite_effect_blend_premultiplied(fx) == [fx EXCEPT !.Blend = blend_premultiplied]

\* glEnable(GL_BLEND) and the blend functions, or glDisable(GL_BLEND) alone.
sprite_effect_apply_blendstate(fx, gl) ==
    IF fx.Blend.BlendEnabled THEN fx.Blend ELSE [gl EXCEPT !.BlendEnabled = FALSE]

SpriteBatch_New(initial_capacity) ==
    [SpriteData |-> << >>, queuedBlend |-> << >>,
     batch |-> create_sprite_batch(initial_capacity),
     effect |-> create_sprite_effect(initial_capacity, 2),
     gpu |-> [vbuf |-> FreshStore(4 * initial_capacity, UndefVertex), ibuf |-> FreshStore(6 * initial_capacity, -1),
              vmaps |-> FreshStore(4 * initial_capacity, 0), imaps |-> FreshStore(6 * initial_capacity, 0)],
     glBlend |-> blend_none, events |-> << >>]

\* Add(z, t, ...): t->GetId() is the render state; the geometry of the
\* sprite is the token g.
SpriteBatch_Add(sb, z, t, g) ==
    [sb EXCEPT !.SpriteData = Append(@, Sprite(g, z, t)),
               !.queuedBlend = Append(@, sb.effect.Blend),
               !.events = <<[op |-> "Add"]>>]

\* Mutant: Flush() without the SpriteData.clear() of its last line.
SpriteBatch_Flush_keep_queue(sb, f) ==
    LET count == Len(sb.SpriteData)
        gl == sprite_effect_apply_blendstate(sb.effect, sb.glBlend)
        b1 == generate_quads(ensure_sprite_batch(sb.batch, count), 0, sb.SpriteData, 0, count)
        b2 == [b1 EXCEPT !.Count = count]
        call == [op |-> "Flush", count |-> count, gl |-> gl, queued |-> sb.queuedBlend, order |-> b2.Order, quads |-> b2.Quads]
    IN IF count > 0
       THEN LET r == sprite_effect_draw_batch_ptc(sb.effect, b2, sb.gpu, f.vfail, f.ifail)
            IN [SpriteData |-> sb.SpriteData, queuedBlend |-> sb.queuedBlend,
                batch |-> flush_sprite_batch(b2),
                effect |-> r.effect, gpu |-> r.gpu, glBlend |-> gl,
                events |-> <<call>> \o r.events]
       ELSE [sb EXCEPT !.events = << >>]

\* Mutant: Flush() sorts the batch back to front before drawing it.
SpriteBatch_Flush_back_to_front(sb, f) ==
    LET count == Len(sb.SpriteData)
        gl == sprite_effect_apply_blendstate(sb.effect, sb.glBlend)
        b1 == generate_quads(ensure_sprite_batch(sb.batch, count), 0, sb.SpriteData, 0, count)
        sorted == CHOOSE ord \in Arrangements(count) :
                     \A i, j \in 0 .. count - 1 :
                        i < j => \/ b1.State[ord[i]].LayerDepth > b1.State[ord[j]].LayerDepth
                                 \/ (b1.State[ord[i]].LayerDepth = b1.State[ord[j]].LayerDepth /\ ord[i] < ord[j])
        b2 == [b1 EXCEPT !.Count = count, !.Order = [q \in DOMAIN b1.Order |-> IF q < count THEN sorted[q] ELSE b1.Order[q]]]
        call == [op |-> "Flush", count |-> count, gl |-> gl, queued |-> sb.queuedBlend, order |-> b2.Order, quads |-> b2.Quads]
    IN IF count > 0
       THEN LET r == sprite_effect_draw_batch_ptc(sb.effect, b2, sb.gpu, f.vfail, f.ifail)
            IN [SpriteData |-> << >>, queuedBlend |-> << >>,
                batch |-> flush_sprite_batch(b2),
                effect |-> r.effect, gpu |-> r.gpu, glBlend |-> gl,
                events |-> <<call>> \o r.events]
       ELSE [sb EXCEPT !.events = << >>]

\* Flush(): f is the plan of mapping failures during its draw_batch.
SpriteBatch_Flush(sb, f) ==
    LET count == Len(sb.SpriteData)
        gl == sprite_effect_apply_blendstate(sb.effect, sb.glBlend)
        b1 == generate_quads(ensure_sprite_batch(sb.batch, count), 0, sb.SpriteData, 0, count)
        b2 == [b1 EXCEPT !.Count = count]
        call == [op |-> "Flush", count |-> count, gl |-> gl, queued |-> sb.queuedBlend, order |-> b2.Order, quads |-> b2.Quads]
    IN IF count > 0
       THEN LET r == sprite_effect_draw_batch_ptc(sb.effect, b2, sb.gpu, f.vfail, f.ifail)
            IN [SpriteData |-> << >>, queuedBlend |-> << >>,
                batch |-> flush_sprite_batch(b2),
                effect |-> r.effect, gpu |-> r.gpu, glBlend |-> gl,
                events |-> <<call>> \o r.events]
       ELSE [sb EXCEPT !.events = << >>]

\* Mutant: the blend fields are changed without flushing the queue.
SpriteBatch_SetBlendMode_no_flush(sb, f, preset) ==
    [sb EXCEPT !.effect = [@ EXCEPT !.Blend = preset],
               !.events = <<[op |-> "SetBlendMode", preset |-> preset]>>]

\* SetBlendModeNone / Alpha / Additive / Premultiplied: Flush(), then the
\* sprite_effect_blend_* function of the preset.
SpriteBatch_SetBlendMode(sb, f, preset) ==
    LET flushed == SpriteBatch_Flush(sb, f)
        fx == CASE preset = blend_none -> sprite_effect_blend_none(flushed.effect)
                [] preset = blend_alpha -> sprite_effect_blend_alpha(flushed.effect)
                [] preset = blend_additive -> sprite_effect_blend_additive(flushed.effect)
                [] OTHER -> sprite_effect_blend_premultiplied(flushed.effect)
    IN [flushed EXCEPT !.effect = fx,
                       !.events = Append(@, [op |-> "SetBlendMode", preset |-> preset])]

This == [SpriteData |-> SpriteData, queuedBlend |-> queuedBlend, batch |-> batch, effect |-> effect,
         gpu |-> Gpu, glBlend |-> glBlend, events |-> log]

Becomes(sb) ==
    /\ SpriteData' = sb.SpriteData
    /\ queuedBlend' = sb.queuedBlend
    /\ batch' = sb.batch
    /\ effect' = sb.effect
    /\ vbuf' = sb.gpu.vbuf
    /\ ibuf' = sb.gpu.ibuf
    /\ vmaps' = sb.gpu.vmaps
    /\ imaps' = sb.gpu.imaps
    /\ glBlend' = sb.glBlend
    /\ log' = sb.events

\* The sprites added in the model: layer depth z and texture id t.
AddInputs == {[z |-> 0, t |-> StateList[1]], [z |-> 1, t |-> StateList[2]]}

InitSB ==
    \E c \in 1 .. MaxInitial :
        LET sb == SpriteBatch_New(c)
        IN /\ SpriteData = sb.SpriteData
           /\ queuedBlend = sb.queuedBlend
           /\ batch = sb.batch
           /\ effect = sb.effect
           /\ vbuf = sb.gpu.vbuf
           /\ ibuf = sb.gpu.ibuf
           /\ vmaps = sb.gpu.vmaps
           /\ imaps = sb.gpu.imaps
           /\ glBlend = sb.glBlend
           /\ log = sb.events

Add ==
    /\ Len(SpriteData) < MaxSprites
    /\ \E a \in AddInputs :
          \E sb \in {SpriteBatch_Add(This, a.z, a.t, Len(SpriteData) + MaxSprites * a.z)} : Becomes(sb)

Flush == \E f \in {NoFailure} : \E sb \in {SpriteBatch_Flush(This, f)} : Becomes(sb)

SetBlendModeNone == \E f \in {NoFailure} : \E sb \in {SpriteBatch_SetBlendMode(This, f, blend_none)} : Becomes(sb)

SetBlendModeAlpha == \E f \in {NoFailure} : \E sb \in {SpriteBatch_SetBlendMode(This, f, blend_alpha)} : Becomes(sb)

SetBlendModeAdditive == \E f \in {NoFailure} : \E sb \in {SpriteBatch_SetBlendMode(This, f, blend_additive)} : Becomes(sb)

SetBlendModePremultiplied == \E f \in {NoFailure} : \E sb \in {SpriteBatch_SetBlendMode(This, f, blend_premultiplied)} : Becomes(sb)

NextSB == Add \/ Flush \/ SetBlendModeNone \/ SetBlendModeAlpha \/ SetBlendModeAdditive \/ SetBlendModePremultiplied

SpecSB == InitSB /\ [][NextSB]_vars

(***************************************************************************)
(* The sprite batch store alone: ensure_sprite_batch, flush_sprite_batch   *)
(* and generate_quads called on one sprite_batch_t, with the sprites of a  *)
(* caller's array as the source of generate_quads.                         *)
(***************************************************************************)
\* The caller's sprite array: distinct geometry, alternating layer depth,
\* render states in rotation.
SourceSprites == [i \in 1 .. MaxSource |-> Sprite(10 + i, i % 2, StateList[(i % Len(StateList)) + 1])]

InitStore ==
    \E cap \in 0 .. 1 :
        Created(1, 2, create_sprite_batch(cap))

EnsureBatch ==
    \E n \in 0 .. MaxEnsure :
        /\ batch' = ensure_sprite_batch(batch, n)
        /\ log' = <<[op |-> "ensure_sprite_batch", capacity |-> n, old |-> batch.Capacity]>>
        /\ UNCHANGED <<SpriteData, queuedBlend, effect, vbuf, ibuf, vmaps, imaps, glBlend>>

\* generate_quads(batch->Quads, batch->State, batch->Order, q, sprites, s, n)
\* for a destination run the batch holds and a source run the array holds.
GenerateQuads ==
    \E q \in 0 .. batch.Capacity : \E s \in 0 .. MaxSource : \E n \in 0 .. MaxSource :
        /\ q + n <= batch.Capacity
        /\ s + n <= MaxSource
        /\ batch' = generate_quads(batch, q, SourceSprites, s, n)
        /\ log' = <<[op |-> "generate_quads", quad_offset |-> q, sprite_offset |-> s, sprite_count |-> n]>>
        /\ UNCHANGED <<SpriteData, queuedBlend, effect, vbuf, ibuf, vmaps, imaps, glBlend>>

\* The caller's fill of a frame: ensure_sprite_batch(count), generate_quads
\* from offset 0, Count = count.
FillBatch ==
    \E count \in 1 .. MaxSource :
        /\ batch' = [generate_quads(ensure_sprite_batch(batch, count), 0, SourceSprites, 0, count) EXCEPT !.Count = count]
        /\ log' = <<[op |-> "fill", count |-> count]>>
        /\ UNCHANGED <<SpriteData, queuedBlend, effect, vbuf, ibuf, vmaps, imaps, glBlend>>

NextStore == EnsureBatch \/ FlushBatch \/ GenerateQuads \/ FillBatch

SpecStore == InitStore /\ [][NextStore]_vars

(***************************************************************************)
(* Sorting (glsprite.hpp).  The comparators read the sort keys of the      *)
(* batch through the quad indices they are given.                          *)
(***************************************************************************)
\* a < b on uint32_t values.
U32Less(a, b) == a[1] < b[1] \/ (a[1] = b[1] /\ a[2] < b[2])

\* Mutant: the layer depth is compared ascending.
back_to_front_ascending(b, ia, ib) ==
    LET sdata_a == b.State[ia]
        sdata_b == b.State[ib]
    IN IF sdata_a.LayerDepth < sdata_b.LayerDepth THEN TRUE
       ELSE IF sdata_a.LayerDepth > sdata_b.LayerDepth THEN FALSE
       ELSE IF U32Less(sdata_a.RenderState, sdata_b.RenderState) THEN TRUE
       ELSE IF U32Less(sdata_b.RenderState, sdata_a.RenderState) THEN FALSE
       ELSE ia < ib

back_to_front(b, ia, ib) ==
    LET sdata_a == b.State[ia]
        sdata_b == b.State[ib]
    IN IF sdata_a.LayerDepth > sdata_b.LayerDepth THEN TRUE
       ELSE IF sdata_a.LayerDepth < sdata_b.LayerDepth THEN FALSE
       ELSE IF U32Less(sdata_a.RenderState, sdata_b.RenderState) THEN TRUE
       ELSE IF U32Less(sdata_b.RenderState, sdata_a.RenderState) THEN FALSE
       ELSE ia < ib

\* Mutant: equal keys are ordered by ascending index.
front_to_back_stable(b, ia, ib) ==
    LET sdata_a == b.State[ia]
        sdata_b == b.State[ib]
    IN IF sdata_a.LayerDepth < sdata_b.LayerDepth THEN TRUE
       ELSE IF sdata_a.LayerDepth > sdata_b.LayerDepth THEN FALSE
       ELSE IF U32Less(sdata_a.RenderState, sdata_b.RenderState) THEN TRUE
       ELSE IF U32Less(sdata_b.RenderState, sdata_a.RenderState) THEN FALSE
       ELSE ia < ib

front_to_back(b, ia, ib) ==
    LET sdata_a == b.State[ia]
        sdata_b == b.State[ib]
    IN IF sdata_a.LayerDepth < sdata_b.LayerDepth THEN TRUE
       ELSE IF sdata_a.LayerDepth > sdata_b.LayerDepth THEN FALSE
       ELSE IF U32Less(sdata_a.RenderState, sdata_b.RenderState) THEN TRUE
       ELSE IF U32Less(sdata_b.RenderState, sdata_a.RenderState) THEN FALSE
       ELSE ia > ib

\* Mutant: the layer depth is compared before the render state.
by_render_state_depth_first(b, ia, ib) ==
    LET sdata_a == b.State[ia]
        sdata_b == b.State[ib]
    IN IF sdata_a.LayerDepth < sdata_b.LayerDepth THEN TRUE
       ELSE IF sdata_a.LayerDepth > sdata_b.LayerDepth THEN FALSE
       ELSE IF U32Less(sdata_a.RenderState, sdata_b.RenderState) THEN TRUE
       ELSE IF U32Less(sdata_b.RenderState, sdata_a.RenderState) THEN FALSE
       ELSE ia < ib

by_render_state(b, ia, ib) ==
    LET sdata_a == b.State[ia]
        sdata_b == b.State[ib]
    IN IF U32Less(sdata_a.RenderState, sdata_b.RenderState) THEN TRUE
       ELSE IF U32Less(sdata_b.RenderState, sdata_a.RenderState) THEN FALSE
       ELSE ia < ib

Comparators == {"back_to_front", "front_to_back", "by_render_state"}

\* TComp cmp(batch); cmp(ia, ib)
Compare(TComp, b, ia, ib) ==
    CASE TComp = "back_to_front" -> back_to_front(b, ia, ib)
      [] TComp = "front_to_back" -> front_to_back(b, ia, ib)
      [] OTHER -> by_render_state(b, ia, ib)

\* std::sort(first, first + n, cmp) on the array order: the arrays it may
\* leave.  The first n entries are rearranged so that no entry is ordered
\* before an entry that precedes it; a comparator that admits no such
\* arrangement is not a strict weak ordering, and any arrangement may result.
std_sort(order, n, TComp, b) ==
    LET arranged == {[p \in DOMAIN order |-> IF p < n THEN order[f[p]] ELSE order[p]] : f \in Arrangements(n)}
        sorted == {r \in arranged : \A i, j \in 0 .. n - 1 : i < j => ~Compare(TComp, b, r[j], r[i])}
    IN IF sorted = {} THEN arranged ELSE sorted

\* Mutant: the sorted range ends at Capacity, not at Count.
sort_sprite_batch_whole_capacity(b, TComp) ==
    {[b EXCEPT !.Order = r] : r \in std_sort(b.Order, b.Capacity, TComp, b)}

\* Mutant: a direct sort, which moves the sort keys along with the order.
sort_sprite_batch_direct(b, TComp) ==
    {[b EXCEPT !.Order = r, !.State = [q \in DOMAIN b.State |-> IF q < b.Count THEN b.State[r[q]] ELSE b.State[q]]] :
        r \in std_sort(b.Order, b.Count, TComp, b)}

\* sort_sprite_batch<TComp>(batch): the batches it may leave.
sort_sprite_batch(b, TComp) ==
    {[b EXCEPT !.Order = r] : r \in std_sort(b.Order, b.Count, TComp, b)}

(***************************************************************************)
(* Sorting and drawing: a batch whose whole capacity was filled by         *)
(* generate_quads in an earlier frame and whose first Count quads are the  *)
(* current frame, sorted with any of the comparators and drawn by an      *)
(* effect of capacity MaxSort quads.                                       *)
(***************************************************************************)
\* The n quads of the current frame carry the layer depths z and the render
\* states rs; the quads an earlier frame left past Count carry one sort key.
SortBatch(cap, n, z, rs) ==
    LET sprites == [i \in 1 .. cap |-> IF i <= n THEN Sprite(i - 1, z[i], rs[i]) ELSE Sprite(i - 1, 0, StateList[1])]
    IN [generate_quads(create_sprite_batch(cap), 0, sprites, 0, cap) EXCEPT !.Count = n]

InitSort ==
    \E cap \in 0 .. MaxSort : \E n \in 0 .. cap :
        \E z \in [1 .. n -> 1 .. 2] : \E rs \in [1 .. n -> RenderStates] :
            Created(MaxSort, 2, SortBatch(cap, n, z, rs))

SortWith(TComp) ==
    \E b \in sort_sprite_batch(batch, TComp) :
        /\ batch' = b
        /\ log' = <<[op |-> "sort_sprite_batch", cmp |-> TComp, old |-> batch.Order]>>
        /\ UNCHANGED <<SpriteData, queuedBlend, effect, vbuf, ibuf, vmaps, imaps, glBlend>>

SortBackToFront == SortWith("back_to_front")

SortFrontToBack == SortWith("front_to_back")

SortByRenderState == SortWith("by_render_state")

NextSort == SortBackToFront \/ SortFrontToBack \/ SortByRenderState \/ DrawAll

SpecSort == InitSort /\ [][NextSort]_vars

(***************************************************************************)
(* The index generators alone: one call of generate_quad_indices_u16 or    *)
(* generate_quad_indices_u32 on an index buffer of undefined content.      *)
(***************************************************************************)
\* DefaultBatch = new SpriteBatch(16383): the largest quad capacity the
\* program creates a 16-bit effect with.
DefaultBatchCapacity == 16383

\* The base vertices passed: the start of a buffer, and the last quads of
\* buffers of 16383 and 16384 quads and the vertices after them.
BaseVertices ==
    {0, 4} \cup {4 * DefaultBatchCapacity - 4 * k : k \in 0 .. MaxIndexed}
           \cup {65532, 65536, 65540}

InitIndexed == Created(MaxIndexed + 1, 2, create_sprite_batch(0))

GenerateIndices(index_size) ==
    /\ log = << >>
    /\ \E offset \in {0, 1, 6} : \E base_vertex \in BaseVertices : \E quad_count \in 0 .. MaxIndexed :
          /\ offset + 6 * quad_count <= effect.IndexCapacity
          /\ ibuf' = IF index_size = 2
                     THEN generate_quad_indices_u16(ibuf, 0, offset, base_vertex, quad_count)
                     ELSE generate_quad_indices_u32(ibuf, 0, offset, base_vertex, quad_count)
          /\ log' = <<[op |-> "generate_quad_indices", index_size |-> index_size, offset |-> offset,
                       base_vertex |-> base_vertex, quad_count |-> quad_count]>>
          /\ UNCHANGED <<SpriteData, queuedBlend, batch, effect, vbuf, vmaps, imaps, glBlend>>

GenerateIndicesU16 == GenerateIndices(2)

GenerateIndicesU32 == GenerateIndices(4)

NextIndexed == GenerateIndicesU16 \/ GenerateIndicesU32

SpecIndexed == InitIndexed /\ [][NextIndexed]_vars

(***************************************************************************)
(* The geometry of one sprite: the quad record generate_quads fills and    *)
(* the four vertices generate_quad_vertices_ptc computes from it.  A float *)
(* is the rational <<numerator, denominator>> in lowest terms; the inputs  *)
(* are small integers and the divisors powers of two, for which the float  *)
(* arithmetic of the program is exact.                                     *)
(***************************************************************************)
RECURSIVE GCD(_, _)
GCD(a, b) == IF b = 0 THEN a ELSE GCD(b, a % b)

Abs(a) == IF a < 0 THEN -a ELSE a

Rat(n, d) ==
    LET g == GCD(Abs(n), Abs(d))
        sgn == IF d < 0 THEN -1 ELSE 1
    IN <<sgn * (n \div g), sgn * (d \div g)>>

Flt(n) == <<n, 1>>

FAdd(a, b) == Rat(a[1] * b[2] + b[1] * a[2], a[2] * b[2])

FSub(a, b) == Rat(a[1] * b[2] - b[1] * a[2], a[2] * b[2])

FMul(a, b) == Rat(a[1] * b[1], a[2] * b[2])

FDiv(a, b) == Rat(a[1] * b[2], a[2] * b[1])

\* sinf and cosf at the angle 0, the one orientation the model draws.
sinf(angle) == Flt(0)

cosf(angle) == Flt(1)

\* The body of the loop of generate_quads: the quad of sprite s.
sprite_quad(s) ==
    [Source |-> <<Flt(s.ImageX), Flt(s.ImageY), Flt(s.ImageWidth), Flt(s.ImageHeight)>>,
     Target |-> <<s.ScreenX, s.ScreenY, FMul(Flt(s.ImageWidth), s.ScaleX), FMul(Flt(s.ImageHeight), s.ScaleY)>>,
     Origin |-> <<s.OriginX, s.OriginY>>,
     Scale |-> <<FDiv(Flt(1), Flt(s.TextureWidth)), FDiv(Flt(1), Flt(s.TextureHeight))>>,
     Orientation |-> s.Orientation,
     TintColor |-> s.TintColor]

XCO == <<0, 1, 1, 0>>

YCO == <<0, 0, 1, 1>>

\* Mutant: the corner offsets of X and Y are exchanged.
quad_vertex_transposed(quad, j) ==
    LET ctr_x == FDiv(quad.Origin[1], quad.Source[3])
        ctr_y == FDiv(quad.Origin[2], quad.Source[4])
        sin_o == sinf(quad.Orientation)
        cos_o == cosf(quad.Orientation)
        ofs_x == Flt(YCO[j + 1])
        ofs_y == Flt(XCO[j + 1])
        x_dst == FMul(FSub(ofs_x, ctr_x), quad.Target[3])
        y_dst == FMul(FSub(ofs_y, ctr_y), quad.Target[4])
    IN [XYUV |-> <<FSub(FAdd(quad.Target[1], FMul(x_dst, cos_o)), FMul(y_dst, sin_o)),
                   FAdd(FAdd(quad.Target[2], FMul(x_dst, sin_o)), FMul(y_dst, cos_o)),
                   FMul(FAdd(quad.Source[1], FMul(ofs_x, quad.Source[3])), quad.Scale[1]),
                   FSub(Flt(1), FMul(FAdd(quad.Source[2], FMul(ofs_y, quad.Source[4])), quad.Scale[2]))>>,
        TintColor |-> quad.TintColor]

\* Vertex j of a quad: the body of the inner loop of
\* generate_quad_vertices_ptc.
quad_vertex(quad, j) ==
    LET ctr_x == FDiv(quad.Origin[1], quad.Source[3])
        ctr_y == FDiv(quad.Origin[2], quad.Source[4])
        sin_o == sinf(quad.Orientation)
        cos_o == cosf(quad.Orientation)
        ofs_x == Flt(XCO[j + 1])
        ofs_y == Flt(YCO[j + 1])
        x_dst == FMul(FSub(ofs_x, ctr_x), quad.Target[3])
        y_dst == FMul(FSub(ofs_y, ctr_y), quad.Target[4])
    IN [XYUV |-> <<FSub(FAdd(quad.Target[1], FMul(x_dst, cos_o)), FMul(y_dst, sin_o)),
                   FAdd(FAdd(quad.Target[2], FMul(x_dst, sin_o)), FMul(y_dst, cos_o)),
                   FMul(FAdd(quad.Source[1], FMul(ofs_x, quad.Source[3])), quad.Scale[1]),
                   FSub(Flt(1), FMul(FAdd(quad.Source[2], FMul(ofs_y, quad.Source[4])), quad.Scale[2]))>>,
        TintColor |-> quad.TintColor]

\* The sprites drawn: sprite_t without the sort key.
GeomSprites ==
    [ScreenX : {Flt(0), Flt(3)}, ScreenY : {Flt(0), Flt(5)},
     OriginX : {Flt(0), Flt(1)}, OriginY : {Flt(0), Flt(1)},
     ScaleX : {Flt(1), Flt(2)}, ScaleY : {Flt(1), Flt(2)},
     Orientation : {Flt(0)}, TintColor : {255, 65280},
     ImageX : {0, 2}, ImageY : {0}, ImageWidth : {1, 2}, ImageHeight : {1, 2},
     TextureWidth : {4}, TextureHeight : {4}]

InitGeom ==
    \E s \in GeomSprites :
        /\ SpriteData = <<s>>
        /\ queuedBlend = << >>
        /\ batch = create_sprite_batch(1)
        /\ effect = create_sprite_effect(1, 2)
        /\ vbuf = FreshStore(4, UndefVertex)
        /\ ibuf = FreshStore(6, -1)
        /\ vmaps = FreshStore(4, 0)
        /\ imaps = FreshStore(6, 0)
        /\ glBlend = blend_none
        /\ log = << >>

\* generate_quads and generate_quad_vertices_ptc for the one sprite.
GenerateVertices ==
    /\ log = << >>
    /\ \E quad \in {sprite_quad(SpriteData[1])} :
          /\ vbuf' = [j \in 0 .. 3 |-> quad_vertex(quad, j)]
          /\ log' = <<[op |-> "generate_quad_vertices_ptc", quad |-> quad]>>
    /\ UNCHANGED <<SpriteData, queuedBlend, batch, effect, ibuf, vmaps, imaps, glBlend>>

NextGeom == GenerateVertices

SpecGeom == InitGeom /\ [][NextGeom]_vars

(***************************************************************************)
(* Reading the log of one sprite_effect_draw_batch_ptc invocation.         *)
(***************************************************************************)
IsDrawBatchLog == Len(log) > 0 /\ log[1].op = "DrawBatch"

At(op) == {p \in 1 .. Len(log) : log[p].op = op}

NoMapFailure == log[1].vfail = {} /\ log[1].ifail = {}

\* The quads the GPU drew in the draw calls of l, in call order.
RECURSIVE DrawnQuads(_)
DrawnQuads(l) ==
    IF l = << >> THEN << >>
    ELSE (IF Head(l).op = "Draw" THEN Head(l).gpu ELSE << >>) \o DrawnQuads(Tail(l))

\* The order positions the draw calls of l covered, in call order.
RECURSIVE DrawnPositions(_)
DrawnPositions(l) ==
    IF l = << >> THEN << >>
    ELSE (IF Head(l).op = "Draw" THEN [j \in 1 .. Head(l).nindex \div 6 |-> Head(l).first + j - 1] ELSE << >>)
         \o DrawnPositions(Tail(l))

\* The quad at order position p of the batch, p counted from 0.
OrderedQuad(p) == batch.Quads[batch.Order[p]]

OrderedState(p) == batch.State[batch.Order[p]].RenderState

\* C1: a draw_batch submits the order positions 0 .. N-1 once each and in
\* this order, however the batch is split into chunks and wherever the
\* cursor started; when no mapping failed, the quads the GPU assembles from
\* the buffers in the successive draw calls are Order[0], ..., Order[N-1].
C1_DrawsInOrder ==
    IsDrawBatchLog =>
        /\ DrawnPositions(log) = [p \in 1 .. batch.Count |-> p - 1]
        /\ NoMapFailure => DrawnQuads(log) = [p \in 1 .. batch.Count |-> OrderedQuad(p - 1)]

\* A batch of 3 quads in a non-identity order, split into several chunks,
\* the first one written at a cursor other than 0.
C1_Witness ==
    /\ IsDrawBatchLog /\ NoMapFailure
    /\ batch.Count = 3 /\ batch.Order[0] = 2
    /\ Cardinality(At("BufferData")) >= 2
    /\ log[3].op = "BufferData" /\ log[3].v0 > 0
    /\ DrawnQuads(log) = <<2, batch.Order[1], batch.Order[2]>>

\* The position of the first buffer_data call after log position p, or
\* Len(log) + 1 when there is none.
NextBufferData(p) ==
    IF \E q \in At("BufferData") : q > p
    THEN CHOOSE q \in At("BufferData") : q > p /\ \A q2 \in At("BufferData") : q2 > p => q <= q2
    ELSE Len(log) + 1

\* The draw calls between the buffer_data call at p and the next one read
\* exactly the index range that call wrote, ascending and without gap.
RECURSIVE Tiles(_, _, _, _)
Tiles(p, q, from, to) ==
    IF p >= q THEN from = to
    ELSE IF log[p].op = "Draw"
         THEN log[p].base = from /\ Tiles(p + 1, q, from + log[p].nindex, to)
         ELSE Tiles(p + 1, q, from, to)

ChunkDrawn(p) == Tiles(p + 1, NextBufferData(p), log[p].i0, log[p].i0 + 6 * log[p].n)

\* C2: within a draw_batch, when buffer_data orphans the buffers, every quad
\* buffered by an earlier buffer_data call of the same draw_batch has been
\* submitted in a draw call, and a draw_region call lies between any two
\* consecutive buffer_data calls.
C2_DrawnBeforeOrphan ==
    IsDrawBatchLog =>
        \A p \in At("BufferData") :
            /\ log[p].orphan =>
                  \A q \in At("BufferData") : q < p => NextBufferData(q) <= p /\ ChunkDrawn(q)
            /\ NextBufferData(p) <= Len(log) =>
                  \E d \in At("DrawRegion") : p < d /\ d < NextBufferData(p)

\* A draw_batch whose second buffer_data call orphans the buffers after the
\* first one buffered two quads of different render state.
C2_Witness ==
    /\ IsDrawBatchLog
    /\ \E p, q \in At("BufferData") :
          /\ q < p /\ log[p].orphan /\ log[q].n = 2
          /\ Cardinality({d \in At("Draw") : q < d /\ d < p}) = 2

\* The most recent ApplyState call before log position p, 0 when none.
LastApply(p) ==
    IF \E a \in At("ApplyState") : a < p
    THEN CHOOSE a \in At("ApplyState") : a < p /\ \A a2 \in At("ApplyState") : a2 < p => a2 <= a
    ELSE 0

DrawPositions(p) == {log[p].first + j : j \in 0 .. (log[p].nindex \div 6) - 1}

\* C7 (as claimed): at every draw call of a draw_batch all quads it covers
\* share one render state S, and the most recent ApplyState call of the same
\* draw_batch carried S, for every render state value.
C7_StateAppliedBeforeDraw ==
    IsDrawBatchLog =>
        \A p \in At("Draw") :
            \A i \in DrawPositions(p) :
                /\ LastApply(p) # 0
                /\ log[LastApply(p)].state = OrderedState(i)

\* C9: a draw_batch calls SetupEffect exactly once, before every
\* buffer_data, ApplyState and draw call, also for an empty batch.
C9_SetupOnceFirst ==
    IsDrawBatchLog =>
        /\ Cardinality(At("SetupEffect")) = 1
        /\ \A s \in At("SetupEffect") :
              \A p \in At("BufferData") \cup At("DrawRegion") \cup At("ApplyState") \cup At("Draw") : s < p

\* A draw_batch split into three chunks.
C9_Witness ==
    /\ IsDrawBatchLog
    /\ Cardinality(At("BufferData")) = 3
    /\ Cardinality(At("SetupEffect")) = 1

\* An empty batch.
C9_WitnessEmpty == IsDrawBatchLog /\ batch.Count = 0 /\ log = <<log[1], SetupEffect>>

(***************************************************************************)
(* Claims about sprite_effect_buffer_data_ptc (checked under SpecBuf).     *)
(***************************************************************************)
\* The state right after a direct sprite_effect_buffer_data_ptc call.
IsBufferDataLog == Len(log) = 1 /\ log[1].op = "BufferData"

FirstCallOfC3(e) == e.op = "BufferData" /\ e.vcap >= 20 /\ e.entry = 0 /\ e.quad_count = e.vcap \div 4 + 5

\* C3: with capacity K >= 5 quads and the cursor at 0, a request for K + 5
\* quads returns K and leaves the vertex cursor at 4K; the call that follows
\* for the remaining 5 quads orphans (both cursors to 0), returns 5, reports
\* base index 0 and leaves the cursors at 20 and 30.
C3_PartialThenOrphan ==
    [][/\ (Len(log') = 1 /\ FirstCallOfC3(log'[1])) =>
            /\ log'[1].n = log'[1].vcap \div 4
            /\ effect'.VertexOffset = effect'.VertexCapacity
       /\ (/\ Len(log) = 1 /\ FirstCallOfC3(log[1])
           /\ Len(log') = 1 /\ log'[1].op = "BufferData"
           /\ log'[1].quad_offset = log[1].n /\ log'[1].quad_count = 5) =>
            /\ log'[1].orphan /\ log'[1].v0 = 0 /\ log'[1].i0 = 0
            /\ log'[1].n = 5 /\ log'[1].base_index = 0
            /\ effect'.VertexOffset = 20 /\ effect'.IndexOffset = 30]_vars

\* The state after the second call of C3: the cursor stood at the capacity
\* 4K, K >= 5, as the request for K + 5 quads left it, and the remaining 5
\* quads, read from quad offset K, were requested.
C3_Witness ==
    /\ IsBufferDataLog
    /\ log[1].vcap >= 20 /\ log[1].entry = log[1].vcap
    /\ log[1].quad_offset = log[1].vcap \div 4 /\ log[1].quad_count = 5
    /\ log[1].n = 5 /\ effect.VertexOffset = 20

\* The index values of the quads j < n that were generated from index slot
\* i0 and vertex slot v0 on.
ChunkStored(i0, v0, n) ==
    \A j \in 0 .. n - 1 : \A k \in 0 .. 5 : ibuf[i0 + 6 * j + k] = v0 + 4 * j + QuadCorner(k)

\* C4: every buffer_data call for count quads buffers n = min(count, R)
\* quads, R being the quad capacity left after the full-buffer check: it
\* returns n, advances the vertex cursor by 4n and the index cursor by 6n,
\* and for n >= 1 reports the index cursor the chunk was written at.
C4_BuffersMinOfCountAndRoom ==
    \A p \in At("BufferData") :
        LET e == log[p]
            v0 == IF e.entry = e.vcap THEN 0 ELSE e.entry
            i0 == IF e.entry = e.vcap THEN 0 ELSE e.ientry
            R == (e.vcap - v0) \div 4
            n == Min(e.quad_count, R)
        IN /\ e.n = n
           /\ e.n <= e.quad_count
           /\ (e.n < e.quad_count) = (e.quad_count > R)
           /\ e.vcur = v0 + 4 * n
           /\ e.icur = i0 + 6 * n
           /\ n >= 1 => e.base_index = i0
           /\ (IsBufferDataLog /\ n >= 1) => ChunkStored(e.base_index, v0, n)

\* A short result: more quads requested than fit behind a cursor not at 0.
C4_Witness ==
    /\ IsBufferDataLog
    /\ log[1].entry > 0 /\ ~log[1].orphan
    /\ log[1].n >= 2 /\ log[1].n < log[1].quad_count
    /\ log[1].base_index = log[1].ientry

\* C5: buffer_data resets both cursors to 0 and allocates fresh storage for
\* both buffers exactly when the vertex cursor equals the vertex capacity at
\* entry; in every other call writing starts at the cursors as they were and
\* the storage written before is kept.
C5_OrphanExactlyWhenFull ==
    \A p \in At("BufferData") :
        LET e == log[p]
        IN /\ e.orphan = (e.entry = e.vcap)
           /\ e.entry = e.vcap =>
                 /\ e.v0 = 0 /\ e.i0 = 0
                 /\ IsBufferDataLog =>
                       /\ \A s \in DOMAIN vbuf : s >= e.vcur => vbuf[s] = UndefVertex /\ vmaps[s] = 0
                       /\ \A s \in DOMAIN ibuf : s >= e.icur => ibuf[s] = -1 /\ imaps[s] = 0
           /\ e.entry # e.vcap =>
                 /\ e.v0 = e.entry /\ e.i0 = e.ientry
                 /\ IsBufferDataLog =>
                       /\ \A s \in DOMAIN vbuf : s < e.entry => vbuf[s] # UndefVertex
                       /\ \A s \in DOMAIN ibuf : s < e.ientry => ibuf[s] # -1

\* A call whose request exceeds the remaining space of a partly filled
\* buffer: no reset.
C5_Witness ==
    /\ IsBufferDataLog
    /\ log[1].entry > 0 /\ log[1].entry < log[1].vcap
    /\ log[1].entry + 4 * log[1].quad_count > log[1].vcap
    /\ ~log[1].orphan /\ log[1].v0 = log[1].entry

\* A call at a full buffer: reset.
C5_WitnessOrphan == IsBufferDataLog /\ log[1].entry = log[1].vcap /\ log[1].orphan /\ log[1].n >= 1

\* C6: between two orphan resets no vertex slot and no index slot is mapped
\* for writing by more than one buffer_data call, and the mapped ranges are
\* contiguous and ascending: together they are the slots below the cursors.
C6_NoSlotMappedTwice ==
    /\ \A s \in DOMAIN vmaps : vmaps[s] = (IF s < effect.VertexOffset THEN 1 ELSE 0)
    /\ \A s \in DOMAIN imaps : imaps[s] = (IF s < effect.IndexOffset THEN 1 ELSE 0)
    /\ \A p \in At("BufferData") :
          log[p].n >= 1 => /\ log[p].vcur = log[p].v0 + log[p].vn
                           /\ log[p].icur = log[p].i0 + log[p].in

\* The third of three calls into the same storage.
C6_Witness ==
    /\ IsBufferDataLog
    /\ ~log[1].orphan /\ log[1].n = 1 /\ log[1].v0 >= 8
    /\ effect.VertexOffset < effect.VertexCapacity
    /\ \A s \in DOMAIN vmaps : s < effect.VertexOffset => vmaps[s] = 1

(***************************************************************************)
(* Claims about the regions of a draw_batch (checked under SpecRuns).      *)
(***************************************************************************)
\* The log positions of the op events of the chunk whose buffer_data call
\* is at log position p.
InChunk(p, op) == {q \in At(op) : p < q /\ q < NextBufferData(p)}

\* The render states passed to ApplyState within log positions p .. q - 1.
RECURSIVE Applied(_, _)
Applied(p, q) ==
    IF p >= q THEN << >>
    ELSE (IF log[p].op = "ApplyState" THEN <<log[p].state>> ELSE << >>) \o Applied(p + 1, q)

\* The number of maximal runs of equal render state among the n >= 1 order
\* positions from off on.
Runs(off, n) == 1 + Cardinality({i \in off + 1 .. off + n - 1 : OrderedState(i) # OrderedState(i - 1)})

\* C8 (as claimed): a first chunk whose order positions 0..2 carry render
\* state A and 3..5 carry B, A # B, makes draw_region invoke ApplyState
\* exactly twice (A, then B) and issue exactly 2 draw calls of 18 indices;
\* and every non-empty chunk is drawn in as many draw calls as it has
\* maximal runs of equal render state.
C8_TwoRunsTwoApplies ==
    IsDrawBatchLog =>
        /\ (/\ Len(log) >= 3 /\ log[3].op = "BufferData" /\ log[3].n = 6
            /\ \A i \in {1, 2} : OrderedState(i) = OrderedState(0)
            /\ \A i \in {4, 5} : OrderedState(i) = OrderedState(3)
            /\ OrderedState(0) # OrderedState(3)) =>
               /\ Applied(3, NextBufferData(3)) = <<OrderedState(0), OrderedState(3)>>
               /\ Cardinality(InChunk(3, "Draw")) = 2
               /\ \A d \in InChunk(3, "Draw") : log[d].nindex = 18
        /\ \A p \in At("BufferData") :
              log[p].n >= 1 => Cardinality(InChunk(p, "Draw")) = Runs(log[p].quad_offset, log[p].n)

(***************************************************************************)
(* Claims about class SpriteBatch (checked under SpecSB).                  *)
(***************************************************************************)
\* The blending the GL state gl performs is the blending of the preset.
SameBlending(gl, preset) ==
    /\ gl.BlendEnabled = preset.BlendEnabled
    /\ preset.BlendEnabled => gl = preset

\* C10: every SetBlendMode* call draws all queued sprites, leaving the queue
\* empty, before it changes the blend fields of the effect; so the blend
\* fields never change under a queued sprite, and every sprite is drawn
\* with the blending of the preset selected when it was added.
C10_DrawnWithBlendAtAdd ==
    /\ \A i \in 1 .. Len(SpriteData) : queuedBlend[i] = effect.Blend
    /\ \A p \in At("Flush") :
          /\ \A i \in 1 .. log[p].count : SameBlending(log[p].gl, log[p].queued[i])
          /\ glBlend = log[p].gl
          /\ DrawnPositions(log) = [k \in 1 .. log[p].count |-> k - 1]
          /\ SpriteData = << >>
    /\ \A p \in At("SetBlendMode") :
          /\ SpriteData = << >>
          /\ effect.Blend = log[p].preset
          /\ \A q \in At("Flush") \cup At("Draw") : q < p

\* SetBlendModeAlpha called with two sprites queued under the additive preset.
C10_Witness ==
    /\ Len(log) > 1 /\ log[1].op = "Flush" /\ log[1].count = 2
    /\ log[1].queued = <<blend_additive, blend_additive>>
    /\ log[1].gl = blend_additive
    /\ log[Len(log)].op = "SetBlendMode" /\ log[Len(log)].preset = blend_alpha
    /\ effect.Blend = blend_alpha /\ SpriteData = << >>

\* C11: an Add keeps every queued sprite and draws nothing; every Flush
\* (alone or inside a SetBlendMode* call) draws the queued sprites, each
\* once and in the order they were added, and leaves the sprite queue empty
\* and BatchData.Count 0.  So a sprite is drawn by the first Flush after its
\* Add and is in the queue of no later Flush.
C11_DrawnOnceByNextFlush ==
    [][IF log' # << >> /\ log'[1].op = "Add"
       THEN /\ Len(SpriteData') = Len(SpriteData) + 1
            /\ SubSeq(SpriteData', 1, Len(SpriteData)) = SpriteData
            /\ DrawnQuads(log') = << >>
       ELSE /\ DrawnQuads(log') = [i \in 1 .. Len(SpriteData) |-> SpriteData[i].Geom]
            /\ SpriteData' = << >>
            /\ batch'.Count = 0]_vars

\* A Flush of two different sprites that had to orphan the buffers that
\* earlier flushes filled.
C11_Witness ==
    /\ Len(log) > 1 /\ log[1].op = "Flush" /\ log[1].count = 2
    /\ \E p \in At("BufferData") : log[p].orphan
    /\ DrawnQuads(log) = <<0, MaxSprites + 1>>
    /\ SpriteData = << >> /\ batch.Count = 0

(***************************************************************************)
(* Claims about the sprite batch store (checked under SpecStore).          *)
(***************************************************************************)
\* C12: after ensure_sprite_batch(batch, n) the Capacity is at least n, and
\* no call on the batch (ensure with any n, flush, refill) decreases it.
C12_CapacityCoversRequest ==
    [][/\ batch'.Capacity >= batch.Capacity
       /\ log'[1].op = "ensure_sprite_batch" => batch'.Capacity >= log'[1].capacity]_vars

\* ensure_sprite_batch with a request below the capacity reached earlier.
C12_Witness ==
    /\ log # << >> /\ log[1].op = "ensure_sprite_batch"
    /\ log[1].capacity < log[1].old
    /\ batch.Capacity = log[1].old

\* C13 (as claimed): an ensure_sprite_batch that has to grow the batch
\* (n > Capacity) leaves at least twice the old Capacity, so that of two
\* consecutive calls, the second asking for one more than the first, the
\* second does not reallocate again.
C13_GrowsGeometrically ==
    [][(log'[1].op = "ensure_sprite_batch" /\ log'[1].capacity > batch.Capacity /\ batch.Capacity >= 1) =>
          /\ batch'.Capacity >= 2 * batch.Capacity
          /\ (/\ log # << >> /\ log[1].op = "ensure_sprite_batch"
              /\ log[1].capacity > log[1].old /\ log[1].old >= 2
              /\ log'[1].capacity = log[1].capacity + 1) => batch'.Capacity = batch.Capacity]_vars

\* C13 (amended): an ensure_sprite_batch that has to grow the batch
\* (n > Capacity) makes the Capacity exactly n, and otherwise leaves it; so
\* calls with n increasing by 1 each time reallocate on every call.
C13_GrowsToRequest ==
    [][log'[1].op = "ensure_sprite_batch" =>
          /\ batch'.Capacity = IF log'[1].capacity > batch.Capacity THEN log'[1].capacity ELSE batch.Capacity
          /\ log'[1].capacity = batch.Capacity + 1 => batch'.Capacity # batch.Capacity]_vars

\* A batch of capacity 2 or more grown by one.
C13_Witness ==
    /\ log # << >> /\ log[1].op = "ensure_sprite_batch"
    /\ log[1].old >= 2 /\ log[1].capacity = log[1].old + 1
    /\ batch.Capacity = log[1].capacity

\* C14: flush_sprite_batch sets Count to 0 and leaves Capacity and the
\* Quads, State and Order storage as they were, so a refill that fits the
\* capacity does not reallocate.
C14_FlushResetsCountOnly ==
    [][/\ log'[1].op = "flush_sprite_batch" =>
             /\ batch'.Count = 0
             /\ batch'.Capacity = batch.Capacity
             /\ batch'.Quads = batch.Quads
             /\ batch'.State = batch.State
             /\ batch'.Order = batch.Order
       /\ (log'[1].op = "fill" /\ log # << >> /\ log[1].op = "flush_sprite_batch"
             /\ log'[1].count <= batch.Capacity) => batch'.Capacity = batch.Capacity]_vars

\* The flush of a batch holding sprites.
C14_Witness ==
    /\ log # << >> /\ log[1].op = "flush_sprite_batch" /\ log[1].old >= 2
    /\ batch.Count = 0 /\ batch.Capacity >= 2
    /\ batch.Order[1] = 1 /\ batch.Quads[1] = SourceSprites[2].Geom

\* C16: generate_quads(quads, sdata, indices, q, sprites, s, n) writes at
\* every destination index q + i, i < n, the quad and the sort key
\* (LayerDepth, RenderState) of the sprite at source index s + i and the
\* order entry q + i; every slot outside [q, q + n) and every sprite is left
\* as it was.
C16_GeneratesIndexForIndex ==
    [][log'[1].op = "generate_quads" =>
          LET q == log'[1].quad_offset
              s == log'[1].sprite_offset
              n == log'[1].sprite_count
          IN /\ \A i \in 0 .. n - 1 :
                   /\ batch'.Quads[q + i] = SourceSprites[s + i + 1].Geom
                   /\ batch'.State[q + i].LayerDepth = SourceSprites[s + i + 1].LayerDepth
                   /\ batch'.State[q + i].RenderState = SourceSprites[s + i + 1].RenderState
                   /\ batch'.Order[q + i] = q + i
             /\ \A d \in 0 .. batch.Capacity - 1 :
                   (d < q \/ d >= q + n) =>
                      /\ batch'.Quads[d] = batch.Quads[d]
                      /\ batch'.State[d] = batch.State[d]
                      /\ batch'.Order[d] = batch.Order[d]
             /\ DOMAIN batch'.Quads = DOMAIN batch.Quads
             /\ SpriteData' = SpriteData]_vars

\* One sprite generated from source index 1 to a destination index past 0,
\* with the slot before it written by an earlier call.
C16_Witness ==
    /\ log # << >> /\ log[1].op = "generate_quads"
    /\ log[1].quad_offset >= 1 /\ log[1].sprite_offset = 1 /\ log[1].sprite_count = 1
    /\ batch.Quads[log[1].quad_offset] = SourceSprites[2].Geom
    /\ batch.Order[log[1].quad_offset] = log[1].quad_offset
    /\ batch.Quads[0] = SourceSprites[1].Geom

(***************************************************************************)
(* Claims about sorting (checked under SpecSort).                          *)
(***************************************************************************)
Depth(a) == batch.State[a].LayerDepth

RS(a) == batch.State[a].RenderState

\* The last call was sort_sprite_batch<TComp>.
SortedBy(TComp) == log # << >> /\ log[1].op = "sort_sprite_batch" /\ log[1].cmp = TComp

\* The batch as the last sort_sprite_batch call found it.
BeforeSort == [batch EXCEPT !.Order = log[1].old]

\* C15: with positions [0, Count) filled by generate_quads, and after any
\* number of sort_sprite_batch calls with any of the comparators,
\* Order[0 .. Count) holds every quad index below Count exactly once.
C15_OrderIsPermutation ==
    {batch.Order[p] : p \in 0 .. batch.Count - 1} = 0 .. batch.Count - 1

\* A sort that rearranged a batch filled below its capacity.
C15_Witness ==
    /\ log # << >> /\ log[1].op = "sort_sprite_batch"
    /\ batch.Count >= 2 /\ batch.Count < batch.Capacity
    /\ batch.Order # log[1].old

\* C17: sort_sprite_batch<back_to_front> leaves the one order in which
\* consecutive entries a, b have LayerDepth(a) > LayerDepth(b), or equal
\* depths and RenderState(a) < RenderState(b), or equal keys and a < b; and
\* back_to_front is irreflexive, asymmetric, transitive and total on
\* distinct quad indices.
C17_BackToFrontOrder ==
    /\ SortedBy("back_to_front") =>
          /\ \A p \in 0 .. batch.Count - 2 :
                LET a == batch.Order[p]
                    b == batch.Order[p + 1]
                IN \/ Depth(a) > Depth(b)
                   \/ Depth(a) = Depth(b) /\ U32Less(RS(a), RS(b))
                   \/ Depth(a) = Depth(b) /\ RS(a) = RS(b) /\ a < b
          /\ sort_sprite_batch(BeforeSort, "back_to_front") = {batch}
    /\ \A a, b, c \in 0 .. batch.Capacity - 1 :
          /\ ~back_to_front(batch, a, a)
          /\ back_to_front(batch, a, b) => ~back_to_front(batch, b, a)
          /\ (back_to_front(batch, a, b) /\ back_to_front(batch, b, c)) => back_to_front(batch, a, c)
          /\ a # b => (back_to_front(batch, a, b) \/ back_to_front(batch, b, a))

\* Three quads, two of them with equal keys and one at another depth,
\* rearranged by the sort.
C17_Witness ==
    /\ SortedBy("back_to_front") /\ batch.Count = 3 /\ batch.Order # log[1].old
    /\ \E a, b, c \in 0 .. 2 : /\ a < b /\ Depth(a) = Depth(b) /\ RS(a) = RS(b)
                               /\ Depth(c) > Depth(a)

\* C18: sort_sprite_batch<front_to_back> leaves the one order in which
\* consecutive entries a, b have LayerDepth(a) < LayerDepth(b), or equal
\* depths and RenderState(a) < RenderState(b), or equal keys and a > b.
C18_FrontToBackOrder ==
    SortedBy("front_to_back") =>
       /\ \A p \in 0 .. batch.Count - 2 :
             LET a == batch.Order[p]
                 b == batch.Order[p + 1]
             IN \/ Depth(a) < Depth(b)
                \/ Depth(a) = Depth(b) /\ U32Less(RS(a), RS(b))
                \/ Depth(a) = Depth(b) /\ RS(a) = RS(b) /\ a > b
       /\ sort_sprite_batch(BeforeSort, "front_to_back") = {batch}

\* Three quads, two of them with equal keys (left in descending index
\* order) and one at a smaller depth.
C18_Witness ==
    /\ SortedBy("front_to_back") /\ batch.Count = 3
    /\ \E p \in 0 .. 1 : /\ batch.Order[p] > batch.Order[p + 1]
                         /\ Depth(batch.Order[p]) = Depth(batch.Order[p + 1])
                         /\ RS(batch.Order[p]) = RS(batch.Order[p + 1])
    /\ \E a, c \in 0 .. 2 : Depth(c) < Depth(a)

\* Order[0 .. Count) is in ascending render state and, among equal render
\* states, ascending quad index.
ByRenderStateOrdered ==
    \A p \in 0 .. batch.Count - 2 :
        LET a == batch.Order[p]
            b == batch.Order[p + 1]
        IN U32Less(RS(a), RS(b)) \/ (RS(a) = RS(b) /\ a < b)

DistinctStates == {RS(batch.Order[p]) : p \in 0 .. batch.Count - 1}

\* C19: sort_sprite_batch<by_render_state> leaves the order with
\* RenderState ascending and, among equal render states, quad index
\* ascending, whatever the layer depths; the quads of one render state are
\* then contiguous, and a draw_batch of a batch in that order that fits one
\* chunk issues as many draw calls as the batch has distinct render states.
C19_ByRenderStateOrder ==
    /\ SortedBy("by_render_state") =>
          /\ ByRenderStateOrdered
          /\ sort_sprite_batch(BeforeSort, "by_render_state") = {batch}
    /\ ByRenderStateOrdered =>
          /\ \A p, q, r \in 0 .. batch.Count - 1 :
                (p < q /\ q < r /\ RS(batch.Order[p]) = RS(batch.Order[r])) => RS(batch.Order[q]) = RS(batch.Order[p])
          /\ (IsDrawBatchLog /\ Cardinality(At("BufferData")) <= 1) =>
                Cardinality(At("Draw")) = Cardinality(DistinctStates)

\* A batch of three quads in two render states, one of them 0xFFFFFFFF, in
\* an order only a sort can have left and against the layer depths, drawn
\* in one chunk by two draw calls.
C19_Witness ==
    /\ IsDrawBatchLog /\ Cardinality(At("BufferData")) = 1 /\ batch.Count = 3
    /\ ByRenderStateOrdered /\ batch.Order # [p \in 0 .. batch.Capacity - 1 |-> p]
    /\ Cardinality(DistinctStates) = 2 /\ NoState \in DistinctStates
    /\ Depth(batch.Order[0]) > Depth(batch.Order[2])
    /\ Cardinality(At("Draw")) = 2

\* C20: sort_sprite_batch with any comparator leaves the Quads and State
\* records, Count and Capacity as they were, and every Order entry at a
\* position >= Count.
C20_SortTouchesOrderOnly ==
    [][log'[1].op = "sort_sprite_batch" =>
          /\ batch'.Quads = batch.Quads
          /\ batch'.State = batch.State
          /\ batch'.Count = batch.Count
          /\ batch'.Capacity = batch.Capacity
          /\ DOMAIN batch'.Order = DOMAIN batch.Order
          /\ \A p \in batch.Count .. batch.Capacity - 1 : batch'.Order[p] = batch.Order[p]]_vars

\* A sort that rearranged the first two entries of a batch of capacity 3.
C20_Witness ==
    /\ log # << >> /\ log[1].op = "sort_sprite_batch"
    /\ batch.Count = 2 /\ batch.Capacity = 3
    /\ batch.Order[0] = 1 /\ batch.Order[1] = 0 /\ batch.Order[2] = 2
    /\ log[1].old[0] = 0 /\ log[1].old[1] = 1

\* The sort keys (LayerDepth, RenderState) along Order[0 .. Count).
KeysInOrder == [p \in 0 .. batch.Count - 1 |-> <<Depth(batch.Order[p]), RS(batch.Order[p])>>]

\* The Draw events of l, in call order, as <<first quad, quads>>.
RECURSIVE DrawRuns(_)
DrawRuns(l) ==
    IF l = << >> THEN << >>
    ELSE (IF Head(l).op = "Draw" THEN <<(<<Head(l).first, Head(l).nindex \div 6>>)>> ELSE << >>) \o DrawRuns(Tail(l))

\* Three quads: render state 7 at layer depths 1 and 2, render state 9 at
\* layer depth 1, enqueued in any order.
C21_Sprites ==
    /\ batch.Count = 3
    /\ {<<Depth(q), RS(q)>> : q \in 0 .. 2} = {<<1, U32(0, 7)>>, <<2, U32(0, 7)>>, <<1, U32(0, 9)>>}

C21_Sorted == KeysInOrder = [p \in 0 .. 2 |-> CASE p = 0 -> <<2, U32(0, 7)>> [] p = 1 -> <<1, U32(0, 7)>> [] OTHER -> <<1, U32(0, 9)>>]

\* C21: for the three sprites of C21_Sprites, sort_sprite_batch<back_to_front>
\* leaves Order = [depth 2 / state 7, depth 1 / state 7, depth 1 / state 9],
\* and a draw_batch of that order in one chunk issues exactly 2 draw calls,
\* of 2 quads then of 1 quad, with ApplyState called with 7 and then with 9.
C21_SortThenDraw ==
    C21_Sprites =>
       /\ SortedBy("back_to_front") => C21_Sorted
       /\ (IsDrawBatchLog /\ C21_Sorted /\ Cardinality(At("BufferData")) = 1) =>
             /\ DrawRuns(log) = <<(<<0, 2>>), (<<2, 1>>)>>
             /\ Applied(1, Len(log) + 1) = <<U32(0, 7), U32(0, 9)>>

\* The three sprites enqueued in another order than the sorted one, sorted
\* and drawn in one chunk.
C21_Witness ==
    /\ C21_Sprites /\ C21_Sorted /\ batch.Order[0] # 0
    /\ IsDrawBatchLog /\ Cardinality(At("BufferData")) = 1
    /\ Cardinality(At("Draw")) = 2

(***************************************************************************)
(* Claims about the index generators (checked under SpecIndexed).          *)
(***************************************************************************)
\* The six index offsets of a quad, in the order they are written.
Pattern == <<1, 0, 2, 2, 0, 3>>

GeneratedIndices == log # << >> /\ log[1].op = "generate_quad_indices"

\* The index the call of the log left for corner k of its quad i.
Stored(i, k) == ibuf[log[1].offset + 6 * i + k]

C29_NoWrapUpToDefaultCapacity ==
    (/\ GeneratedIndices /\ log[1].index_size = 2
     /\ log[1].base_vertex % 4 = 0
     /\ log[1].base_vertex + 4 * log[1].quad_count <= 4 * DefaultBatchCapacity) =>
       \A i \in 0 .. log[1].quad_count - 1 : \A k \in 0 .. 5 :
          /\ Stored(i, k) < 65536
          /\ Stored(i, k) = log[1].base_vertex + 4 * i + Pattern[k + 1]

\* The last two quads of a buffer of 16383 quads.
C29_Witness ==
    /\ GeneratedIndices /\ log[1].index_size = 2
    /\ log[1].quad_count = 2 /\ log[1].base_vertex = 4 * DefaultBatchCapacity - 8
    /\ Stored(1, 5) = 4 * DefaultBatchCapacity - 1

(***************************************************************************)
(* Claims about the vertex generator (checked under SpecGeom).             *)
(***************************************************************************)
GeneratedVertices == log # << >> /\ log[1].op = "generate_quad_vertices_ptc"

Position(j) == <<vbuf[j].XYUV[1], vbuf[j].XYUV[2]>>

\* C23: a sprite with orientation 0, origin (0,0), scale (1,1), position
\* (x,y) and size w x h yields the vertex positions (x,y), (x+w,y),
\* (x+w,y+h), (x,y+h) in this order, each carrying the sprite's tint color.
C23_UnrotatedCorners ==
    (/\ GeneratedVertices
     /\ SpriteData[1].Orientation = Flt(0)
     /\ SpriteData[1].OriginX = Flt(0) /\ SpriteData[1].OriginY = Flt(0)
     /\ SpriteData[1].ScaleX = Flt(1) /\ SpriteData[1].ScaleY = Flt(1)) =>
       LET x == SpriteData[1].ScreenX
           y == SpriteData[1].ScreenY
           w == Flt(SpriteData[1].ImageWidth)
           h == Flt(SpriteData[1].ImageHeight)
       IN /\ Position(0) = <<x, y>>
          /\ Position(1) = <<FAdd(x, w), y>>
          /\ Position(2) = <<FAdd(x, w), FAdd(y, h)>>
          /\ Position(3) = <<x, FAdd(y, h)>>
          /\ \A j \in 0 .. 3 : vbuf[j].TintColor = SpriteData[1].TintColor

\* The sprite at (3,5) of size 2 x 1, tinted 65280.
C23_Witness ==
    /\ GeneratedVertices
    /\ SpriteData[1].OriginX = Flt(0) /\ SpriteData[1].OriginY = Flt(0)
    /\ SpriteData[1].ScaleX = Flt(1) /\ SpriteData[1].ScaleY = Flt(1)
    /\ Position(0) = <<Flt(3), Flt(5)>> /\ Position(1) = <<Flt(5), Flt(5)>>
    /\ Position(2) = <<Flt(5), Flt(6)>> /\ Position(3) = <<Flt(3), Flt(6)>>
    /\ vbuf[2].TintColor = 65280

(***************************************************************************)
(* Claims about the chunks of a draw_batch (checked under Spec).           *)
(***************************************************************************)
\* Two events describe the same call, mapping results and the quads the
\* GPU assembles aside.
SameCall(a, b) ==
    /\ a.op = b.op
    /\ CASE a.op = "BufferData" -> [a EXCEPT !.vok = TRUE, !.iok = TRUE] = [b EXCEPT !.vok = TRUE, !.iok = TRUE]
         [] a.op = "Draw" -> [a EXCEPT !.gpu = << >>, !.read = << >>] = [b EXCEPT !.gpu = << >>, !.read = << >>]
         [] a.op = "DrawBatch" -> TRUE
         [] OTHER -> a = b

\* A buffer_data call of the log l orphans the buffers within positions
\* from .. to.
OrphanIn(l, from, to) == \E q \in from .. to : l[q].op = "BufferData" /\ l[q].orphan

\* C24: a draw_batch in which the vertex or the index mapping of a
\* buffer_data call fails makes the same calls as one without failure
\* (same quad counts, cursors and base indices, same draw calls, same final
\* cursors) and submits every order position; the range whose mapping
\* failed is left as it was and the other range is written.
C24_FailedMappingSkipsWriteOnly ==
    [][LET l == log'
           ok == sprite_effect_draw_batch_ptc(effect, batch, Gpu, {}, {})
       IN (/\ Len(l) > 0 /\ l[1].op = "DrawBatch"
           /\ (l[1].vfail # {} \/ l[1].ifail # {})) =>
             /\ effect' = ok.effect
             /\ Len(l) = Len(ok.events)
             /\ \A p \in 1 .. Len(l) : SameCall(l[p], ok.events[p])
             /\ DrawnPositions(l) = [p \in 1 .. batch.Count |-> p - 1]
             /\ \A p \in 1 .. Len(l) :
                   (l[p].op = "BufferData" /\ ~OrphanIn(l, p + 1, Len(l))) =>
                      /\ \A s \in l[p].v0 .. l[p].v0 + 4 * l[p].n - 1 :
                            vbuf'[s] = IF l[p].vok
                                       THEN [tok |-> batch.Quads[batch.Order[l[p].quad_offset + (s - l[p].v0) \div 4]],
                                             corner |-> (s - l[p].v0) % 4]
                                       ELSE IF OrphanIn(l, 1, p) THEN UndefVertex ELSE vbuf[s]
                      /\ \A s \in l[p].i0 .. l[p].i0 + 6 * l[p].n - 1 :
                            ibuf'[s] = IF l[p].iok
                                       THEN l[p].v0 + 4 * ((s - l[p].i0) \div 6) + QuadCorner((s - l[p].i0) % 6)
                                       ELSE IF OrphanIn(l, 1, p) THEN -1 ELSE ibuf[s]]_vars

\* A draw_batch of two quads in one chunk whose vertex mapping failed: the
\* vertex range is undefined, the indices are written, both cursors have
\* advanced and the draw call was issued.
C24_Witness ==
    /\ IsDrawBatchLog /\ log[1].vfail = {1} /\ log[1].ifail = {}
    /\ batch.Count = 2 /\ Cardinality(At("BufferData")) = 1
    /\ log[3].op = "BufferData" /\ ~log[3].vok /\ log[3].iok /\ log[3].n = 2
    /\ vbuf[log[3].v0] = UndefVertex
    /\ ibuf[log[3].i0] = log[3].v0 + 1
    /\ effect.VertexOffset = log[3].v0 + 8 /\ effect.IndexOffset = log[3].i0 + 12
    /\ Cardinality(At("Draw")) >= 1

\* The same with the index mapping failed and the vertices written.
C24_WitnessIndex ==
    /\ IsDrawBatchLog /\ log[1].vfail = {} /\ log[1].ifail = {1}
    /\ batch.Count = 2 /\ Cardinality(At("BufferData")) = 1
    /\ log[3].op = "BufferData" /\ log[3].vok /\ ~log[3].iok /\ log[3].n = 2
    /\ vbuf[log[3].v0].tok = batch.Order[0]
    /\ ibuf[log[3].i0] = -1
    /\ effect.VertexOffset = log[3].v0 + 8
    /\ Cardinality(At("Draw")) >= 1

\* The quads buffered by the buffer_data calls before log position p.
BufferedBefore(p) ==
    LET calls == {q \in At("BufferData") : q < p}
        RECURSIVE Sum(_)
        Sum(S) == IF S = {} THEN 0 ELSE LET q == CHOOSE q \in S : TRUE IN log[q].n + Sum(S \ {q})
    IN Sum(calls)

\* C25: in a draw_batch of N quads on an effect of K quads, from any
\* cursor, every buffer_data call returns at least 1 quad, each call is
\* made for exactly the quads not buffered yet, the calls together buffer
\* the N quads, and there are at most ceil(N/K) + 1 of them.
C25_ChunksMakeProgress ==
    IsDrawBatchLog =>
        /\ \A p \in At("BufferData") :
              /\ log[p].n >= 1
              /\ log[p].quad_offset = BufferedBefore(p)
              /\ log[p].quad_count = batch.Count - BufferedBefore(p)
        /\ BufferedBefore(Len(log) + 1) = batch.Count
        /\ Cardinality(At("BufferData")) <= ((batch.Count + Capacity - 1) \div Capacity) + 1

\* Two quads on an effect of two quads whose cursor stood in the middle:
\* a short result, the remainder re-submitted, ceil(N/K) + 1 = 2 calls.
C25_Witness ==
    /\ IsDrawBatchLog /\ batch.Count = 2 /\ Capacity = 2
    /\ log[3].op = "BufferData" /\ log[3].entry = 4 /\ log[3].n = 1 /\ log[3].quad_count = 2
    /\ Cardinality(At("BufferData")) = 2
    /\ \E p \in At("BufferData") : log[p].quad_offset = 1 /\ log[p].quad_count = 1 /\ log[p].orphan

(***************************************************************************)
(* The render-state tracker across chunks (checked under SpecRuns).        *)
(***************************************************************************)
\* The order positions whose render state differs from that of the
\* position before, the sentinel 0xFFFFFFFF standing before position 0.
StateChanges ==
    {i \in 0 .. batch.Count - 1 :
        OrderedState(i) # (IF i = 0 THEN NoState ELSE OrderedState(i - 1))}

\* C26: CurrentState is carried from chunk to chunk: a draw_batch calls
\* ApplyState once for every order position whose render state differs
\* from that of the position before (0xFFFFFFFF before position 0), in
\* position order, however the batch is chunked; a chunk that begins inside
\* a run draws its part of the run with no ApplyState before that draw.
C26_StateCarriedAcrossChunks ==
    IsDrawBatchLog =>
        /\ Cardinality(At("ApplyState")) = Cardinality(StateChanges)
        /\ \A i \in StateChanges :
              Applied(1, Len(log) + 1)[Cardinality({j \in StateChanges : j <= i})] = OrderedState(i)
        /\ \A p \in At("BufferData") :
              (log[p].quad_offset > 0 /\ log[p].quad_offset \notin StateChanges) =>
                 \E d \in InChunk(p, "Draw") :
                    /\ log[d].first = log[p].quad_offset
                    /\ \A a \in InChunk(p, "ApplyState") : d < a

\* Six quads of render states 7 7 7 7 9 9 drawn in two chunks of three: the
\* run of 7 straddles the boundary and is drawn by two draw calls, with two
\* ApplyState calls in all.
C26_Witness ==
    /\ IsDrawBatchLog /\ batch.Count = 6 /\ Capacity = 3
    /\ Cardinality(At("BufferData")) = 2
    /\ \A i \in 0 .. 3 : OrderedState(i) = U32(0, 7)
    /\ \A i \in 4 .. 5 : OrderedState(i) = U32(0, 9)
    /\ Cardinality(At("ApplyState")) = 2
    /\ Cardinality(At("Draw")) = 3

(***************************************************************************)
(* The cursors of the effect (checked under SpecBuf).                      *)
(***************************************************************************)
\* C27: from create_sprite_effect(K) on, through buffer_data, draw_batch
\* and flush_sprite_batch calls: 0 <= VertexOffset <= VertexCapacity = 4K,
\* VertexOffset is a multiple of 4 and IndexOffset = 6 * (VertexOffset / 4)
\* <= IndexCapacity = 6K; a call lowers a cursor only in a buffer_data that
\* finds the vertex buffer full, a draw_batch begins buffering at the
\* cursors it found, and flush_sprite_batch leaves the effect as it was.
C27_CursorsInStep ==
    /\ [](/\ effect.VertexOffset >= 0 /\ effect.VertexOffset <= effect.VertexCapacity
          /\ effect.VertexOffset % 4 = 0
          /\ effect.VertexCapacity % 4 = 0 /\ effect.VertexCapacity >= 4
          /\ effect.IndexCapacity = 6 * (effect.VertexCapacity \div 4)
          /\ effect.IndexOffset = 6 * (effect.VertexOffset \div 4)
          /\ effect.IndexOffset <= effect.IndexCapacity
          /\ DOMAIN vbuf = 0 .. effect.VertexCapacity - 1
          /\ DOMAIN ibuf = 0 .. effect.IndexCapacity - 1)
    /\ [][/\ effect'.VertexCapacity = effect.VertexCapacity
          /\ (effect'.VertexOffset < effect.VertexOffset \/ effect'.IndexOffset < effect.IndexOffset) =>
                \E p \in 1 .. Len(log') :
                   log'[p].op = "BufferData" /\ log'[p].orphan /\ log'[p].entry = log'[p].vcap
          /\ (Len(log') >= 3 /\ log'[1].op = "DrawBatch") =>
                /\ log'[3].op = "BufferData"
                /\ log'[3].entry = effect.VertexOffset /\ log'[3].ientry = effect.IndexOffset
          /\ (Len(log') = 2 /\ log'[1].op = "DrawBatch") => effect'.VertexOffset = effect.VertexOffset
          /\ (Len(log') = 1 /\ log'[1].op = "flush_sprite_batch") =>
                effect'.VertexOffset = effect.VertexOffset /\ effect'.IndexOffset = effect.IndexOffset]_vars

\* A draw_batch that began buffering mid-buffer, filled the buffer, orphaned
\* it and left the cursors mid-buffer again.
C27_Witness ==
    /\ IsDrawBatchLog /\ Len(log) >= 3
    /\ log[3].op = "BufferData" /\ log[3].entry > 0 /\ log[3].entry < log[3].vcap /\ ~log[3].orphan
    /\ \E p \in At("BufferData") : log[p].orphan
    /\ effect.VertexOffset > 0 /\ effect.VertexOffset < effect.VertexCapacity
    /\ effect.IndexOffset = 6 * (effect.VertexOffset \div 4)

\* The batch flushed with the cursors mid-buffer.
C27_WitnessFlush ==
    /\ Len(log) = 1 /\ log[1].op = "flush_sprite_batch" /\ batch.Count = 0
    /\ effect.VertexOffset > 0 /\ effect.VertexOffset < effect.VertexCapacity

(***************************************************************************)
(* What the draw calls of a chunk read (checked under Spec).               *)
(***************************************************************************)
\* The draw calls of the chunk buffered at log position p tile the index
\* range the call was given, read there the indices of the vertex slots of
\* the same call, quad j from v0+4j .. v0+4j+3, and the GPU assembles the
\* quads of the chunk from them.
ChunkReadsOwnSlots(p) ==
    /\ ChunkDrawn(p)
    /\ \A d \in InChunk(p, "Draw") :
          /\ log[d].base >= log[p].i0 /\ log[d].base + log[d].nindex <= log[p].i0 + 6 * log[p].n
          /\ \A k \in 1 .. log[d].nindex :
                LET slot == log[d].base + k - 1 - log[p].i0
                IN /\ log[d].read[k] = log[p].v0 + 4 * (slot \div 6) + QuadCorner(slot % 6)
                   /\ log[d].read[k] >= log[p].v0 /\ log[d].read[k] < log[p].v0 + 4 * log[p].n
          /\ \A j \in 1 .. log[d].nindex \div 6 : log[d].gpu[j] = OrderedQuad(log[d].first + j - 1)

\* C28 (as claimed): the draw calls of every chunk of a draw_batch tile the
\* chunk's index range [i0, i0 + 6n), the indices there reference only the
\* vertex slots [v0, v0 + 4n) of the same buffer_data call, quad j using
\* v0+4j .. v0+4j+3, and no draw call reads a slot that was not written
\* since the last orphan reset.
C28_DrawsReadWrittenSlots ==
    IsDrawBatchLog => \A p \in At("BufferData") : ChunkReadsOwnSlots(p)

\* C28 (amended): the same for every chunk both of whose mappings
\* succeeded; the draw calls of a chunk with a failed mapping still tile its
\* index range.
C28_DrawsReadSlotsOfMappedChunk ==
    IsDrawBatchLog =>
        \A p \in At("BufferData") :
            /\ ChunkDrawn(p)
            /\ (log[p].vok /\ log[p].iok) => ChunkReadsOwnSlots(p)

\* Three quads in a non-identity order drawn in two chunks, the first of
\* two quads written mid-buffer, the second after the orphan reset.
C28_Witness ==
    /\ IsDrawBatchLog /\ NoMapFailure /\ batch.Count = 3 /\ batch.Order[0] # 0
    /\ log[3].op = "BufferData" /\ log[3].v0 = 4 /\ log[3].n = 2
    /\ \E d \in InChunk(3, "Draw") : log[d].read[1] = 5 /\ log[d].gpu[1] = batch.Order[0]
    /\ \E p \in At("BufferData") : log[p].orphan /\ log[p].n = 1 /\ ChunkReadsOwnSlots(p)

(***************************************************************************)
(* The draw order of SpriteBatch::Flush (checked under SpecSB).            *)
(***************************************************************************)
\* C30: Flush sorts nothing: the Order array it draws with is the identity
\* generate_quads wrote, the order positions are submitted ascending, and
\* the GPU draws the sprites in the order of their Add calls whatever their
\* layer depths.
C30_FlushDrawsInAddOrder ==
    [][(log' # << >> /\ log'[1].op = "Flush") =>
          /\ log'[1].count = Len(SpriteData)
          /\ \A p \in 0 .. log'[1].count - 1 :
                /\ log'[1].order[p] = p
                /\ log'[1].quads[p] = SpriteData[p + 1].Geom
                /\ batch'.State[p].LayerDepth = SpriteData[p + 1].LayerDepth
          /\ DrawnPositions(log') = [i \in 1 .. Len(SpriteData) |-> i - 1]
          /\ DrawnQuads(log') = [i \in 1 .. Len(SpriteData) |-> SpriteData[i].Geom]]_vars

\* A Flush of a sprite of layer depth 0 added before one of layer depth 1,
\* which a back-to-front sort would have exchanged.
C30_Witness ==
    /\ Len(log) > 1 /\ log[1].op = "Flush" /\ log[1].count = 2
    /\ log[1].order[0] = 0 /\ log[1].order[1] = 1
    /\ batch.State[0].LayerDepth = 0 /\ batch.State[1].LayerDepth = 1
    /\ DrawnQuads(log) = <<log[1].quads[0], log[1].quads[1]>>
    /\ log[1].quads[0] # log[1].quads[1]

\* The same with the sprite of layer depth 1 added first, which a
\* front-to-back sort would have exchanged.
C30_WitnessDescending ==
    /\ Len(log) > 1 /\ log[1].op = "Flush" /\ log[1].count = 2
    /\ log[1].order[0] = 0 /\ log[1].order[1] = 1
    /\ batch.State[0].LayerDepth = 1 /\ batch.State[1].LayerDepth = 0
    /\ DrawnQuads(log) = <<log[1].quads[0], log[1].quads[1]>>

====
